---- MODULE Spec2Model ----
(***************************************************************************)
(* Model of MergeMasterXXL: the integration-branch builder                 *)
(* (merge_prs_into_dev), the change resolver (get_prs), the persisted      *)
(* state codec (get_dev_branch_status), and the release scheduler          *)
(* (tag_dev.ts) with its pipeline polling (wait_for_action).               *)
(***************************************************************************)
EXTENDS Integers, Sequences, FiniteSets, TLC

(***************************************************************************)
(* Generic sequence helpers (lodash / Array primitives used by the code).  *)
(***************************************************************************)
Range(s) == { s[i] : i \in 1..Len(s) }

InSeq(x, s) == \E i \in 1..Len(s) : s[i] = x

\* Array.prototype.indexOf, 1-based; 0 stands for JavaScript's -1
IndexOf(s, x) == IF InSeq(x, s) THEN CHOOSE i \in 1..Len(s) : s[i] = x /\ \A j \in 1..(i-1) : s[j] # x ELSE 0

RECURSIVE FilterIn(_, _)
\* the elements of s that are members of the set keep, in order
FilterIn(s, keep) ==
    IF s = <<>> THEN <<>>
    ELSE IF Head(s) \in keep THEN <<Head(s)>> \o FilterIn(Tail(s), keep)
    ELSE FilterIn(Tail(s), keep)

RECURSIVE Uniq(_)
\* first occurrences of s, in order
Uniq(s) ==
    IF s = <<>> THEN <<>>
    ELSE LET r == Uniq(SubSeq(s, 1, Len(s) - 1))
         IN IF InSeq(s[Len(s)], r) THEN r ELSE Append(r, s[Len(s)])

\* _.difference(a, b): the unique values of a not in b, in a's order
Difference(a, b) == Uniq(FilterIn(a, Range(a) \ Range(b)))

\* the absent value (null / undefined)
Null == [null |-> TRUE]

(***************************************************************************)
(* Identifiers: repositories and changes.                                  *)
(***************************************************************************)
DefaultOwner == "GTNewHorizons"

\* names matching \w+ (PR_SHORT's and PR_HASH's owner)
WordNames == {"GTNewHorizons", "lucko", "X", "Y", "Z"}
\* names matching [\w\d\-]+ (PR_URL's owner and repo, PR_SHORT's repo)
WordDashNames == WordNames \cup {"Some-Org"}

\* a RepoId is the text "owner/repo" or "repo", kept as its "/"-separated chunks
parse_repo_id(repo_id) ==
    IF Len(repo_id) = 1 THEN [owner |-> DefaultOwner, repo |-> repo_id[1]]
    ELSE [owner |-> repo_id[1], repo |-> repo_id[2]]

stringify_repo_id(repo_info) == <<repo_info.owner, repo_info.repo>>

normalize_repo_id(repo_id) == stringify_repo_id(parse_repo_id(repo_id))

\* texts that refer to a change: the URL form, the short form owner/repo#n,
\* the hash form [owner]#n, and any other text
UrlText(owner, repo, pr) == [form |-> "url", owner |-> owner, repo |-> repo, pr |-> pr]
ShortText(owner, repo, pr) == [form |-> "short", owner |-> owner, repo |-> repo, pr |-> pr]
HashText(owner, pr) == [form |-> "hash", owner |-> owner, pr |-> pr]
BadText == [form |-> "bad"]
\* the URL form with the number written with leading zeros; pr is what
\* parseInt reads from the digits
PaddedUrlText(owner, repo, pr, zeros) ==
    IF zeros = 0 THEN UrlText(owner, repo, pr)
    ELSE [form |-> "url", owner |-> owner, repo |-> repo, pr |-> pr, zeros |-> zeros]

\* names the hosting service accepts: an owner has letters, digits and
\* single hyphens, a repository also "_" and "."
OwnerNames == {"GTNewHorizons", "lucko", "Some-Org"}
RepoNames == {"X", "Y", "Some-Org", "Dot.Repo"}

stringify_pr(pr) == UrlText(pr.repo_id.owner, pr.repo_id.repo, pr.pr)

parse_pr(text) ==
    IF text.form = "url" /\ text.owner \in WordDashNames /\ text.repo \in WordDashNames
    THEN [repo_id |-> [owner |-> text.owner, repo |-> text.repo], pr |-> text.pr]
    ELSE IF text.form = "short" /\ text.owner \in WordNames /\ text.repo \in WordDashNames
    THEN [repo_id |-> [owner |-> text.owner, repo |-> text.repo], pr |-> text.pr]
    ELSE Null

(***************************************************************************)
(* Labels.                                                                 *)
(***************************************************************************)
BLOCKER_LABELS == {"affects balance", "not ready for testing"}
REQUIRED_LABELS == {"testing on zeta", ":construction: testing on zeta"}
NOT_REVERTABLE == "not revertable"

\* variant that keeps the label names as the hosting service spells them
toLowerCase_AsSpelled(name) == name

\* String.prototype.toLowerCase on the label names that occur
toLowerCase(name) ==
    CASE name = "Testing on Zeta" -> "testing on zeta"
      [] name = "TESTING ON ZETA" -> "testing on zeta"
      [] name = ":construction: Testing on Zeta" -> ":construction: testing on zeta"
      [] name = "Affects Balance" -> "affects balance"
      [] name = "AFFECTS BALANCE" -> "affects balance"
      [] name = "NOT READY FOR TESTING" -> "not ready for testing"
      [] name = "Not Revertable" -> "not revertable"
      [] name = "Testing" -> "testing"
      [] OTHER -> name

(***************************************************************************)
(* load_pr: a fetched change (QLPR) becomes a PullRequest, or null when a  *)
(* "depends on:" line does not parse.  bodyText is kept as its lines; a    *)
(* line is [dep |-> FALSE] or [dep |-> TRUE, ref |-> <text after marker>]. *)
(***************************************************************************)
DepLine(ref) == [dep |-> TRUE, ref |-> ref]
TextLine == [dep |-> FALSE]

\* lines 169-183: the text after the marker resolved to a PRId or null
ResolveDep(repo_info, ref) ==
    LET dep == IF ref.form = "hash" /\ (ref.owner = "" \/ ref.owner \in WordNames)
               THEN stringify_pr([repo_id |-> [owner |-> IF ref.owner # "" THEN ref.owner ELSE repo_info.owner,
                                               repo |-> repo_info.repo],
                                  pr |-> ref.pr])
               ELSE ref
    IN  parse_pr(dep)

RECURSIVE LoadDeps(_, _)
\* the dependency loop of load_pr: [ok |-> TRUE, deps |-> the PRIds in line
\* order], or [ok |-> FALSE] when a line makes load_pr return null
LoadDeps(repo_info, lines) ==
    IF lines = <<>> THEN [ok |-> TRUE, deps |-> <<>>]
    ELSE IF ~Head(lines).dep THEN LoadDeps(repo_info, Tail(lines))
    ELSE LET pr_id == ResolveDep(repo_info, Head(lines).ref)
             rest == LoadDeps(repo_info, Tail(lines))
         IN  IF pr_id = Null \/ ~rest.ok THEN [ok |-> FALSE]
             ELSE [ok |-> TRUE, deps |-> <<pr_id>> \o rest.deps]

\* variant that drops the dependency lines of a change instead of the change
load_pr_KeepChange(repo_info, ql) ==
    LET loaded == LoadDeps(repo_info, ql.bodyText)
    IN  [labels |-> { toLowerCase(n) : n \in ql.labels },
         baseIsDefault |-> ql.baseIsDefault,
         isDraft |-> ql.isDraft,
         locked |-> ql.locked,
         number |-> ql.number,
         permalink |-> ql.permalink,
         updatedAt |-> ql.updatedAt,
         dependencies |-> IF loaded.ok THEN loaded.deps ELSE <<>>]

load_pr(repo_info, ql) ==
    LET loaded == LoadDeps(repo_info, ql.bodyText)
    IN  IF ~loaded.ok THEN Null
        ELSE [labels |-> { toLowerCase(n) : n \in ql.labels },
              baseIsDefault |-> ql.baseIsDefault,
              isDraft |-> ql.isDraft,
              locked |-> ql.locked,
              number |-> ql.number,
              permalink |-> ql.permalink,
              updatedAt |-> ql.updatedAt,
              dependencies |-> loaded.deps]

(***************************************************************************)
(* DepGraph (package dependency-graph) as get_prs and tag_dev.ts use it:   *)
(* nodes in insertion order, outgoing edges in insertion order.            *)
(***************************************************************************)
EmptyGraph == [nodes |-> <<>>, edges |-> <<>>]

hasNode(g, n) == InSeq(n, g.nodes)

addNode(g, n) == IF hasNode(g, n) THEN g ELSE [g EXCEPT !.nodes = Append(@, n)]

addDependency(g, from, to) ==
    IF InSeq(<<from, to>>, g.edges) THEN g ELSE [g EXCEPT !.edges = Append(@, <<from, to>>)]

RECURSIVE OutEdges(_, _)
\* outgoingEdges[n], in insertion order
OutEdges(edges, n) ==
    IF edges = <<>> THEN <<>>
    ELSE IF Head(edges)[1] = n THEN <<Head(edges)[2]>> \o OutEdges(Tail(edges), n)
    ELSE OutEdges(Tail(edges), n)

RECURSIVE ReachFrom(_, _, _)
\* the nodes reachable from the frontier by one or more edges
ReachFrom(g, frontier, seen) ==
    LET next == { e[2] : e \in { x \in Range(g.edges) : x[1] \in frontier } } \ seen
    IN  IF next = {} THEN seen ELSE ReachFrom(g, next, seen \cup next)

Reachable(g, n) == ReachFrom(g, {n}, {})

HasCycle(g) == \E n \in Range(g.nodes) : n \in Reachable(g, n)

RECURSIVE Visit(_, _, _)
RECURSIVE VisitAll(_, _, _)
\* createDFS: post-order, a node is pushed after all of its outgoing edges
Visit(g, n, result) ==
    IF InSeq(n, result) THEN result
    ELSE Append(VisitAll(g, OutEdges(g.edges, n), result), n)

VisitAll(g, ns, result) ==
    IF ns = <<>> THEN result
    ELSE VisitAll(g, Tail(ns), Visit(g, Head(ns), result))

\* variant of a graph made with { circular: true }: no cycle check
overallOrder_Circular(g) == [ok |-> TRUE, order |-> g.nodes]

\* overallOrder(): [ok |-> FALSE] stands for the thrown DepGraphCycleError
overallOrder(g) ==
    IF HasCycle(g) THEN [ok |-> FALSE]
    ELSE LET starts == FilterIn(g.nodes, { n \in Range(g.nodes) : \A e \in Range(g.edges) : e[2] # n })
         IN  [ok |-> TRUE, order |-> VisitAll(g, starts, <<>>)]

\* dependenciesOf(n): every node n depends on, directly or transitively, in
\* DFS post-order; n itself is removed
dependenciesOf(g, n) ==
    LET r == Visit(g, n, <<>>) IN SubSeq(r, 1, Len(r) - 1)

(***************************************************************************)
(* get_prs: filter the fetched changes, load them, order them by the       *)
(* dependency graph and collect the cross-repo dependencies.               *)
(***************************************************************************)
RECURSIVE LoadAll(_, _)
\* .map(pr => load_pr(repo_info, pr)).filter(Boolean)
LoadAll(repo_info, qls) ==
    IF qls = <<>> THEN <<>>
    ELSE LET pr == load_pr(repo_info, Head(qls))
         IN  (IF pr = Null THEN <<>> ELSE <<pr>>) \o LoadAll(repo_info, Tail(qls))

\* .filter({ baseRefName: default_branch, isDraft: false, locked: false })
IsOpenForDefault(ql) == ql.baseIsDefault /\ ~ql.isDraft /\ ~ql.locked

HasNoBlocker(pr) == pr.labels \cap BLOCKER_LABELS = {}

HasRequired(pr) == pr.labels \cap REQUIRED_LABELS # {}

\* lines 229-237
ValidPRs(repo_info, allPRs, third_party) ==
    LET open == SelectSeq(allPRs, IsOpenForDefault)
        loaded == LoadAll(repo_info, open)
        unblocked == SelectSeq(loaded, HasNoBlocker)
        ready == SelectSeq(unblocked, HasRequired)
    IN  ready \o third_party

RECURSIVE AddNodes(_, _)
\* lines 241-243
AddNodes(g, prs) ==
    IF prs = <<>> THEN g ELSE AddNodes(addNode(g, Head(prs).permalink), Tail(prs))

RECURSIVE AddDeps(_, _, _)
\* lines 248-260 for one change: node and edge per declared dependency
AddDeps(g, permalink, deps) ==
    IF deps = <<>> THEN g
    ELSE LET dep_permalink == stringify_pr(Head(deps))
         IN  AddDeps(addDependency(addNode(g, dep_permalink), permalink, dep_permalink),
                     permalink, Tail(deps))

RECURSIVE AddAllDeps(_, _)
\* lines 247-261
AddAllDeps(g, prs) ==
    IF prs = <<>> THEN g
    ELSE AddAllDeps(AddDeps(g, Head(prs).permalink, Head(prs).dependencies), Tail(prs))

\* line 257: the owner is compared with the literal organisation name
IsCrossRepo(dep, repo) == dep.repo_id.owner # "GTNewHorizons" \/ dep.repo_id.repo # repo

RECURSIVE CrossRepoDeps(_, _)
\* lines 245-261: crossRepoDeps in push order
CrossRepoDeps(prs, repo) ==
    IF prs = <<>> THEN <<>>
    ELSE LET d == Head(prs).dependencies
         IN  SelectSeq(d, LAMBDA dep : IsCrossRepo(dep, repo)) \o CrossRepoDeps(Tail(prs), repo)

\* variant without _.sortBy: the changes stay in fetch order
SortByIndex_FetchOrder(list, order, i) == list

RECURSIVE SortByIndex(_, _, _)
\* _.sortBy(validPRs, pr => order.indexOf(pr.permalink)): stable, ascending
SortByIndex(prs, order, i) ==
    IF i > Len(order) THEN <<>>
    ELSE SelectSeq(prs, LAMBDA pr : IndexOf(order, pr.permalink) = i) \o SortByIndex(prs, order, i + 1)

PrGraph(validPRs) == AddAllDeps(AddNodes(EmptyGraph, validPRs), validPRs)

\* PRInfo, or Null when overallOrder throws (a dependency cycle)
get_prs(repo_id, allPRs, third_party) ==
    LET repo_info == parse_repo_id(repo_id)
        validPRs == ValidPRs(repo_info, allPRs, third_party)
        graph == PrGraph(validPRs)
        sorted == overallOrder(graph)
    IN  IF ~sorted.ok THEN Null
        ELSE [prs |-> SortByIndex(validPRs, sorted.order, 0),
              dependencies |-> CrossRepoDeps(validPRs, repo_info.repo)]

(***************************************************************************)
(* Texts and the persisted-state codec.  A text is kept by how it was      *)
(* produced: yaml.stringify of a record, the base64 encoding of a text, or *)
(* the empty text.                                                         *)
(***************************************************************************)
EmptyText == [enc |-> "none"]

yaml_stringify(doc) == [enc |-> "yaml", doc |-> doc]

\* Buffer.from(text).toString('base64')
base64(text) == [enc |-> "base64", of |-> text]

\* what follows a commit's own body in the message get_commits records:
\* nothing, plain prose lines, or lines that read as "key: value"
BodyKinds == {"", "plain", "mapping"}

\* yaml.parse of a text followed by appended lines.  A YAML mapping parses to
\* the record (further keys do not change the three lists; prose after it
\* makes the parser throw); a base64 text is a plain scalar and parses to a
\* string, also when prose continues it, and throws when "key: value" lines
\* follow; the empty text parses to null
yaml_parse(text, appended) ==
    IF text.enc = "yaml"
    THEN IF appended = "plain" THEN [threw |-> TRUE]
         ELSE [threw |-> FALSE, value |-> [kind |-> "map", doc |-> text.doc]]
    ELSE IF text.enc = "base64"
    THEN IF appended = "mapping" THEN [threw |-> TRUE]
         ELSE [threw |-> FALSE, value |-> [kind |-> "string"]]
    ELSE [threw |-> FALSE, value |-> Null]

\* DevBranchStatus
DevBranchStatus(included, removed, dependencies) ==
    [k \in {"Included PRs", "Removed PRs", "Dependencies"} |->
        IF k = "Included PRs" THEN included ELSE IF k = "Removed PRs" THEN removed ELSE dependencies]

IsMap(status) == status # Null /\ status.kind = "map"

\* status[key] where lodash receives it: a missing property counts as no elements
ArrayProp(status, key) == IF IsMap(status) THEN status.doc[key] ELSE <<>>

(***************************************************************************)
(* Commits and branches.  A branch is the revision of the default branch   *)
(* it was cut from and the commits made on top of it, newest first.        *)
(***************************************************************************)
TOOL_NAME == "MergeMasterXXL"
STATUS_SUBJECT == "Dev Branch Status"

Commit(committer, subject, body, date, adds) ==
    [committer_name |-> committer, subject |-> subject, body |-> body, committer_date |-> date, adds |-> adds]

Branch(base, commits) == [base |-> base, commits |-> commits]

\* git log <ref> -n <n> restricted to the commits above the default branch;
\* each record's message is the output of git log --pretty=format:"%b" <sha>,
\* which prints the bodies of the commit and of every ancestor: bodiesBelow
\* is the kind of text those ancestors' bodies add after the commit's own
get_commits(branch, n, bodiesBelow) ==
    IF branch = Null THEN <<>>
    ELSE LET k == IF Len(branch.commits) < n THEN Len(branch.commits) ELSE n
         IN  [i \in 1..k |-> [committer_name |-> branch.commits[i].committer_name,
                              subject |-> branch.commits[i].subject,
                              committer_date |-> branch.commits[i].committer_date,
                              message |-> branch.commits[i].body,
                              appended |-> bodiesBelow]]

\* _.get(await get_commits(repo_id, `${branch} -n 1`), [0, "committer_date"], null):
\* the date of the tip; a branch without commits of its own shows the date
\* of the default-branch commit it points at
TipDate(branch, baseDate) ==
    IF branch = Null THEN Null
    ELSE IF branch.commits = <<>> THEN [date |-> baseDate]
    ELSE [date |-> Head(branch.commits).committer_date]

RECURSIVE get_dev_branch_status(_)
get_dev_branch_status(commits) ==
    IF commits = <<>> THEN Null
    ELSE LET commit == Head(commits)
         IN  IF commit.committer_name = TOOL_NAME /\ commit.subject = STATUS_SUBJECT
             THEN LET parsed == yaml_parse(commit.message, commit.appended)
                  IN  IF parsed.threw THEN Null ELSE parsed.value
             ELSE get_dev_branch_status(Tail(commits))

\* number of commits examined for the status commit (`${dev_branch} -n 5`)
STATUS_SCAN == 5

(***************************************************************************)
(* needs_update (the rebuild decider), as a function of what it reads.     *)
(*   prs               the resolver's changes                              *)
(*   dev_update        tip date of the local integration branch, or Null   *)
(*   dev_custom_update tip date of the local overlay branch, or Null       *)
(*   status            get_dev_branch_status of the integration branch     *)
(*   commits_to_master number of commits in dev..default                   *)
(* The result records the decision, whether delete_dev is called, and the  *)
(* two differences that are logged.                                        *)
(***************************************************************************)
Permalinks(prs) == [i \in 1..Len(prs) |-> prs[i].permalink]

\* variant without the early return of lines 12-22
needs_update_NoTeardown(prs, dev_update, dev_custom_update, status, commits_to_master) ==
    [result |-> dev_update = Null \/ commits_to_master > 0 \/ (status # Null /\ ArrayProp(status, "Included PRs") # Permalinks(prs)),
     delete_dev |-> FALSE, added |-> <<>>, removed |-> <<>>]

\* variant that does not look at the changes' last-updated timestamps
needs_update_IgnoreUpdates(prs, dev_update, dev_custom_update, status, commits_to_master) ==
    LET permalinks == Permalinks(prs)
        diffs == status # Null
        added == IF diffs THEN Difference(ArrayProp(status, "Included PRs"), permalinks) ELSE <<>>
        removed == IF diffs THEN Difference(permalinks, ArrayProp(status, "Included PRs")) ELSE <<>>
    IN  IF Len(prs) = 0 /\ dev_custom_update = Null
        THEN [result |-> FALSE, delete_dev |-> dev_update # Null, added |-> <<>>, removed |-> <<>>]
        ELSE IF dev_update # Null
        THEN [result |-> added # <<>> \/ removed # <<>> \/ commits_to_master > 0,
              delete_dev |-> FALSE, added |-> added, removed |-> removed]
        ELSE [result |-> TRUE, delete_dev |-> FALSE, added |-> <<>>, removed |-> <<>>]

needs_update(prs, dev_update, dev_custom_update, status, commits_to_master) ==
    LET permalinks == Permalinks(prs)
        diffs == status # Null
        added == IF diffs THEN Difference(ArrayProp(status, "Included PRs"), permalinks) ELSE <<>>
        removed == IF diffs THEN Difference(permalinks, ArrayProp(status, "Included PRs")) ELSE <<>>
        updated == \E i \in 1..Len(prs) : prs[i].updatedAt > dev_update.date
    IN  IF Len(prs) = 0 /\ dev_custom_update = Null
        THEN [result |-> FALSE, delete_dev |-> dev_update # Null, added |-> <<>>, removed |-> <<>>]
        ELSE IF dev_update # Null
        THEN [result |-> added # <<>> \/ removed # <<>> \/ commits_to_master > 0 \/ updated,
              delete_dev |-> FALSE, added |-> added, removed |-> removed]
        ELSE [result |-> TRUE, delete_dev |-> FALSE, added |-> <<>>, removed |-> <<>>]

(***************************************************************************)
(* Branch names (env.ts) and the working copy.                             *)
(***************************************************************************)
dev_branch == "dev-mmxxl"
dev_custom == "dev-mmxxl-custom"
dev_error == "dev-mmxxl-error"
\* the default branch of every modelled repository
default_branch == "master"
\* the local branch `gh pr checkout <permalink> -b <number>` creates
pr_branch == "pr"

BranchNames == {dev_branch, dev_custom, dev_error}

(***************************************************************************)
(* Tags.  A tag name d.d.d or d.d.d-pre is kept as parse_tag splits it:     *)
(* the numbers and whether the format ends with "-pre".  A tag reference   *)
(* is a tag and the commit it points at (a branch tip).                    *)
(***************************************************************************)
ParsedTag(values, pre) == [values |-> values, pre |-> pre]

RECURSIVE compare_values_PrefixEqual(_, _)
\* variant that stops at the end of the shorter list
compare_values_PrefixEqual(a, b) ==
    IF a = <<>> \/ b = <<>> THEN 0
    ELSE IF Head(a) = Head(b) THEN compare_values_PrefixEqual(Tail(a), Tail(b))
    ELSE IF Head(a) < Head(b) THEN -1 ELSE 1

RECURSIVE compare_values(_, _)
\* compare_tag_versions on the zipped values: -1, 0 or 1
compare_values(a, b) ==
    IF a = <<>> /\ b = <<>> THEN 0
    ELSE IF a = <<>> THEN -1
    ELSE IF b = <<>> THEN 1
    ELSE IF Head(a) = Head(b) THEN compare_values(Tail(a), Tail(b))
    ELSE IF Head(a) < Head(b) THEN -1 ELSE 1

compare_tag_versions(a, b) == compare_values(a.values, b.values)

\* increment_tag: "-pre" is dropped, added again for a pre-release, and the
\* last number is raised
increment_tag(tag, pre) ==
    ParsedTag([tag.values EXCEPT ![Len(tag.values)] = @ + 1], pre)

(***************************************************************************)
(* Tag names as texts.  A text is the sequence of its characters; the      *)
(* functions below are parse_tag, sprintf (package sprintf-js, on the      *)
(* formats parse_tag builds), stringify_tag and increment_tag on them.     *)
(* [threw |-> TRUE] stands for a thrown error.                             *)
(***************************************************************************)
Digits == <<"0", "1", "2", "3", "4", "5", "6", "7", "8", "9">>

isDigit(c) == InSeq(c, Digits)

PRE == <<"-", "p", "r", "e">>

RECURSIVE parseInt(_)
\* parseInt of a run of digits
parseInt(str) ==
    IF str = <<>> THEN 0
    ELSE 10 * parseInt(SubSeq(str, 1, Len(str) - 1)) + (IndexOf(Digits, str[Len(str)]) - 1)

RECURSIVE ToDigits(_)
\* String(n) of a natural number
ToDigits(n) == IF n < 10 THEN <<Digits[n + 1]>> ELSE Append(ToDigits(n \div 10), Digits[(n % 10) + 1])

RECURSIVE DropTrailingZeros(_)
DropTrailingZeros(str) ==
    IF Len(str) > 1 /\ str[Len(str)] = "0" THEN DropTrailingZeros(SubSeq(str, 1, Len(str) - 1)) ELSE str

\* Number.prototype.toExponential() of a natural number
toExponential(n) ==
    LET d == ToDigits(n)
        m == DropTrailingZeros(d)
    IN  (IF Len(m) = 1 THEN m ELSE <<m[1], ".">> \o SubSeq(m, 2, Len(m)))
        \o <<"e", "+">> \o ToDigits(Len(d) - 1)

RECURSIVE parse_tag_loop(_, _, _, _, _, _)
\* lines 61-95 from position i on (positions count from 1); wasDigit is
\* "null" before the first character
parse_tag_loop(tag, i, start, wasDigit, format, values) ==
    IF i > Len(tag)
    THEN IF start < i
         THEN LET str == SubSeq(tag, start, i - 1)
              IN  IF wasDigit = "true"
                  THEN [format |-> format \o <<"%", "d">>, values |-> Append(values, parseInt(str))]
                  ELSE [format |-> format \o str, values |-> values]
         ELSE [format |-> format, values |-> values]
    ELSE LET digit == IF isDigit(tag[i]) THEN "true" ELSE "false"
         IN  IF wasDigit # digit
             THEN LET str == SubSeq(tag, start, i - 1)
                  IN  IF wasDigit = "true"
                      THEN parse_tag_loop(tag, i + 1, i, digit, format \o <<"%", "d">>, Append(values, parseInt(str)))
                      ELSE parse_tag_loop(tag, i + 1, i, digit, format \o str, values)
             ELSE parse_tag_loop(tag, i + 1, start, wasDigit, format, values)

parse_tag(tag) == parse_tag_loop(tag, 1, 1, "null", <<>>, <<>>)

\* the placeholder a format starts with after its "%": an optional "-" flag
\* and a type; of the types only d and e are characters of the formats here
Placeholder(fmt) ==
    IF Len(fmt) >= 2 /\ fmt[2] \in {"d", "e"} THEN [len |-> 2, type |-> fmt[2]]
    ELSE IF Len(fmt) >= 3 /\ fmt[2] = "-" /\ fmt[3] \in {"d", "e"} THEN [len |-> 3, type |-> fmt[3]]
    ELSE Null

RECURSIVE sprintf(_, _)
\* sprintf(format, ...values): text is copied up to a "%", "%%" gives "%", a
\* placeholder takes the next argument (a missing one is a TypeError), any
\* other "%" is a SyntaxError; arguments left over are ignored
sprintf(fmt, args) ==
    IF fmt = <<>> THEN [threw |-> FALSE, text |-> <<>>]
    ELSE IF Head(fmt) # "%"
    THEN LET rest == sprintf(Tail(fmt), args)
         IN  IF rest.threw THEN rest ELSE [threw |-> FALSE, text |-> <<Head(fmt)>> \o rest.text]
    ELSE IF Len(fmt) >= 2 /\ fmt[2] = "%"
    THEN LET rest == sprintf(SubSeq(fmt, 3, Len(fmt)), args)
         IN  IF rest.threw THEN rest ELSE [threw |-> FALSE, text |-> <<"%">> \o rest.text]
    ELSE LET ph == Placeholder(fmt)
         IN  IF ph = Null \/ args = <<>> THEN [threw |-> TRUE]
             ELSE LET rest == sprintf(SubSeq(fmt, ph.len + 1, Len(fmt)), Tail(args))
                      shown == IF ph.type = "d" THEN ToDigits(Head(args)) ELSE toExponential(Head(args))
                  IN  IF rest.threw THEN rest ELSE [threw |-> FALSE, text |-> shown \o rest.text]

stringify_tag(tag) == sprintf(tag.format, tag.values)

endsWith(str, suffix) ==
    Len(str) >= Len(suffix) /\ SubSeq(str, Len(str) - Len(suffix) + 1, Len(str)) = suffix

\* the object passed to increment_tag after the call: lines 103-111 assign
\* to tag.format and raise tag.values[tag.values.length - 1] in place; on
\* an empty array the ++ sets the property "-1" and leaves the elements alone
increment_tag_effect(tag, pre) ==
    LET stripped == IF endsWith(tag.format, PRE) THEN SubSeq(tag.format, 1, Len(tag.format) - Len(PRE))
                    ELSE tag.format
        format == IF pre THEN stripped \o PRE ELSE stripped
        values == IF tag.values = <<>> THEN tag.values
                  ELSE [tag.values EXCEPT ![Len(tag.values)] = @ + 1]
    IN  [format |-> format, values |-> values]

\* increment_tag on a parsed text: stringify_tag of the object it changed
increment_tag_text(tag, pre) == stringify_tag(increment_tag_effect(tag, pre))

\* number of tags `git tag -l --sort=creatordate | tail -n 5` keeps
TAG_TAIL == 5

\* get_latest_tags followed by sort(compare_tag_versions) and _.last: the
\* highest of the last TAG_TAIL tags, the later one among equals
LatestTag(tags) ==
    LET from == IF Len(tags) > TAG_TAIL THEN Len(tags) - TAG_TAIL + 1 ELSE 1
        best == CHOOSE i \in from..Len(tags) :
                    \A j \in from..Len(tags) :
                        LET c == compare_tag_versions(tags[j].tag, tags[i].tag)
                        IN  c < 0 \/ (c = 0 /\ j <= i)
    IN  tags[best].tag

\* the tip of a local branch
Tip(w, name) == IF name = default_branch THEN Branch(w.master, <<>>) ELSE w.local[name]

\* variant that never finds a tag at the tip
get_tag_for_ref_Never(w, name) == FALSE

\* git describe --tags --exact-match <branch>: whether a tag points at the tip
get_tag_for_ref(w, name) == \E i \in 1..Len(w.tags) : w.tags[i].target = Tip(w, name)

\* git tag -f <tag_name> <base>
create_tag(w, tag, name) ==
    LET others == SelectSeq(w.tags, LAMBDA t : t.tag # tag)
    IN  [w EXCEPT !.tags = Append(others, [tag |-> tag, target |-> Tip(w, name)])]

\* get_latest_tag: whether git describe finds a tag below the default branch
HasTagBelowHead(w) ==
    \E i \in 1..Len(w.tags) : w.tags[i].target.commits = <<>> /\ w.tags[i].target.base <= w.master

\* clone_repo: only the default branch exists locally; a clone without a tag
\* below HEAD gets the local tag 0.0.0
clone_repo(rem) ==
    LET w == [local |-> [b \in BranchNames |-> Null], head |-> default_branch, prev |-> "",
              master |-> rem.master, tags |-> rem.tags]
    IN  IF HasTagBelowHead(w) THEN w ELSE create_tag(w, ParsedTag(<<0, 0, 0>>, FALSE), default_branch)

\* git checkout <name>: a local branch, or a new local branch tracking the
\* remote one of that name; "-" is the branch checked out before
checkout_branch(w, rem, name) ==
    LET target == IF name = "-" THEN w.prev ELSE name
        isLocal == target \in {default_branch, pr_branch} \/ (target \in BranchNames /\ w.local[target] # Null)
        isRemote == target \in BranchNames /\ rem.branches[target] # Null
    IN  IF target = "" \/ ~(isLocal \/ isRemote) THEN [ok |-> FALSE, wc |-> w]
        ELSE [ok |-> TRUE,
              wc |-> [w EXCEPT !.local = IF isLocal THEN @ ELSE [@ EXCEPT ![target] = rem.branches[target]],
                               !.head = target,
                               !.prev = w.head]]

\* git branch -D
delete_branch(w, name) == [w EXCEPT !.local[name] = Null]

\* git checkout -b <name>, cut from the checked-out default branch
checkout_new_branch(w, name) ==
    [w EXCEPT !.local[name] = Branch(w.master, <<>>), !.head = name, !.prev = w.head]

\* gh pr checkout <permalink> -b <number>
checkout_pr(w) == [w EXCEPT !.head = pr_branch, !.prev = w.head]

\* a commit on the checked-out integration branch
CommitOn(w, name, c) == [w EXCEPT !.local[name].commits = <<c>> \o @]

\* git push -f origin <branch>: pushes the local branch of that name and
\* fails when there is none
force_push(w, rem, branch) ==
    IF w.local[branch] = Null THEN [ok |-> FALSE, remote |-> rem]
    ELSE [ok |-> TRUE, remote |-> [rem EXCEPT !.branches[branch] = w.local[branch]]]

\* delete_dev: DELETE .../branches/{dev_branch}, nothing in dry-run mode
delete_dev(rem, dry) == IF dry THEN rem ELSE [rem EXCEPT !.branches[dev_branch] = Null]

(***************************************************************************)
(* The release scheduler (tag_dev.ts): what it scans and the graph it      *)
(* builds.  An entry of one of its per-repository tables is Unset or       *)
(* SetTo(value).                                                           *)
(***************************************************************************)
Unset == [set |-> FALSE]
SetTo(v) == [set |-> TRUE, v |-> v]

\* get_merged_prs: the merged changes named by the whitelist and their
\* cross-repo dependencies; Null stands for the error overallOrder throws
get_merged_prs(repo_id, allPRs, whitelist) ==
    LET repo_info == parse_repo_id(repo_id)
        loaded == LoadAll(repo_info, SelectSeq(allPRs, IsOpenForDefault))
        validPRs == SelectSeq(loaded, LAMBDA pr : pr.number \in whitelist)
    IN  IF HasCycle(PrGraph(validPRs)) THEN Null
        ELSE [prs |-> validPRs, dependencies |-> CrossRepoDeps(validPRs, repo_info.repo)]

\* the revision of the default branch the latest tag below HEAD points at
LatestTagRevision(w) ==
    LET below == { w.tags[i].target.base : i \in { j \in 1..Len(w.tags) :
                     w.tags[j].target.commits = <<>> /\ w.tags[j].target.base <= w.master } }
    IN  CHOOSE b \in below : \A c \in below : c <= b

\* fetch_master_prs: Unset when nothing was committed since the latest tag;
\* rem.merged lists the merged changes with the revision of their merge commit
fetch_master_prs(repo_id, w, rem) ==
    LET since == SelectSeq(rem.merged, LAMBDA m : m.rev > LatestTagRevision(w) /\ m.rev <= w.master)
        merge_commits == { since[i].ql.number : i \in 1..Len(since) }
        merged_prs == get_merged_prs(repo_id, [i \in 1..Len(rem.merged) |-> rem.merged[i].ql], merge_commits)
    IN  IF w.master = LatestTagRevision(w) THEN [threw |-> FALSE, prs |-> Unset, dependencies |-> Unset]
        ELSE IF merged_prs = Null THEN [threw |-> TRUE]
        ELSE [threw |-> FALSE,
              prs |-> SetTo([i \in 1..Len(merged_prs.prs) |->
                               [repo_id |-> parse_repo_id(repo_id), pr |-> merged_prs.prs[i].number]]),
              dependencies |-> SetTo(merged_prs.dependencies)]

\* fetch_dev_prs: has_dev, and the two lists when a status is read
fetch_dev_prs(w, rem) ==
    LET co == checkout_branch(w, rem, dev_branch)
        status == get_dev_branch_status(get_commits(co.wc.local[dev_branch], STATUS_SCAN, rem.bodiesBelow))
        included == ArrayProp(status, "Included PRs")
        dependencies == ArrayProp(status, "Dependencies")
    IN  IF ~co.ok THEN [has_dev |-> FALSE, prs |-> Unset, dependencies |-> Unset]
        ELSE IF status = Null THEN [has_dev |-> TRUE, prs |-> Unset, dependencies |-> Unset]
        ELSE [has_dev |-> TRUE,
              prs |-> SetTo([i \in 1..Len(included) |-> parse_pr(included[i])]),
              dependencies |-> SetTo(SelectSeq([i \in 1..Len(dependencies) |-> parse_pr(dependencies[i])],
                                               LAMBDA d : d # Null))]

\* a node of the scheduler's graph and its data: repository and variant
Target(repo, branch) == <<repo, branch>>

stringify_dest(dest) == Target(stringify_repo_id(dest.repo_info), dest.branch)

RECURSIVE Locate(_, _, _, _)
\* pr_locations[stringify_pr(pr_id)] = {repo_info, branch} for each pr_id
Locate(locations, repo, branch, pr_ids) ==
    IF pr_ids = <<>> THEN locations
    ELSE Locate((stringify_pr(Head(pr_ids)) :> [repo_info |-> parse_repo_id(repo), branch |-> branch]) @@ locations,
                repo, branch, Tail(pr_ids))

RECURSIVE LocateAll(_, _, _, _)
\* lines 117-124 and 126-133: one table, its repositories in insertion order
LocateAll(locations, table, branch, repos) ==
    IF repos = <<>> THEN locations
    ELSE LET here == IF table[Head(repos)].set
                     THEN Locate(locations, Head(repos), branch, table[Head(repos)].v)
                     ELSE locations
         IN  LocateAll(here, table, branch, Tail(repos))

\* lines 115-133: the integration variants first, the stable variants over them
pr_locations(devPRs, masterPRs, repos) ==
    LocateAll(LocateAll(<<>>, devPRs, "dev", repos), masterPRs, "master", repos)

RECURSIVE TargetNodes_AlwaysDev(_, _, _)
\* variant that gives every repository an integration node
TargetNodes_AlwaysDev(g, has_dev, repos) ==
    IF repos = <<>> THEN g
    ELSE LET repo == Head(repos)
             g1 == addNode(g, Target(repo, "master"))
             g2 == addDependency(addNode(g1, Target(repo, "dev")), Target(repo, "dev"), Target(repo, "master"))
         IN  TargetNodes_AlwaysDev(g2, has_dev, Tail(repos))

RECURSIVE TargetNodes(_, _, _)
\* lines 141-156
TargetNodes(g, has_dev, repos) ==
    IF repos = <<>> THEN g
    ELSE LET repo == Head(repos)
             g1 == addNode(g, Target(repo, "master"))
             g2 == IF has_dev[repo]
                   THEN addDependency(addNode(g1, Target(repo, "dev")), Target(repo, "dev"), Target(repo, "master"))
                   ELSE g1
         IN  TargetNodes(g2, has_dev, Tail(repos))

RECURSIVE DependencyEdges_Lenient(_, _, _, _)
\* variant in which a dependency without location is passed over
DependencyEdges_Lenient(acc, locations, from, deps) ==
    IF deps = <<>> THEN acc
    ELSE LET dep == stringify_pr(Head(deps))
             to == stringify_dest(locations[dep])
             next == IF dep \notin DOMAIN locations THEN acc
                     ELSE IF ~hasNode(acc.graph, to) THEN acc
                     ELSE [acc EXCEPT !.graph = addDependency(@, from, to)]
         IN  DependencyEdges_Lenient(next, locations, from, Tail(deps))

RECURSIVE DependencyEdges(_, _, _, _)
\* lines 162-184 and 188-206: the edges one list of dependencies adds from a
\* node; success turns FALSE when a dependency has no location
DependencyEdges(acc, locations, from, deps) ==
    IF deps = <<>> THEN acc
    ELSE LET dep == stringify_pr(Head(deps))
             to == stringify_dest(locations[dep])
             next == IF dep \notin DOMAIN locations THEN [acc EXCEPT !.success = FALSE]
                     ELSE IF ~hasNode(acc.graph, to) THEN acc
                     ELSE [acc EXCEPT !.graph = addDependency(@, from, to)]
         IN  DependencyEdges(next, locations, from, Tail(deps))

RECURSIVE AllDependencyEdges(_, _, _, _, _)
\* lines 160-208
AllDependencyEdges(acc, locations, masterDependencies, devDependencies, repos) ==
    IF repos = <<>> THEN acc
    ELSE LET repo == Head(repos)
             a1 == IF masterDependencies[repo].set
                   THEN DependencyEdges(acc, locations, Target(normalize_repo_id(repo), "master"),
                                        masterDependencies[repo].v)
                   ELSE acc
             a2 == IF devDependencies[repo].set
                   THEN DependencyEdges(a1, locations, Target(normalize_repo_id(repo), "dev"),
                                        devDependencies[repo].v)
                   ELSE a1
         IN  AllDependencyEdges(a2, locations, masterDependencies, devDependencies, Tail(repos))

(***************************************************************************)
(* Bounds and the environment's inputs.                                    *)
(***************************************************************************)
\* change numbers 1..NumPr exist per repository
NumPr == 3
\* at most MaxFetch open changes are returned by one fetch
MaxFetch == 3
\* program runs per behaviour
MaxRuns == 2

RepoX == <<"GTNewHorizons", "X">>
RepoY == <<"GTNewHorizons", "Y">>
RepoZ == <<"GTNewHorizons", "Z">>

OtherRepo(repo) == IF repo = "X" THEN "Y" ELSE "X"

PermalinkOf(repo_info, n) == UrlText(repo_info.owner, repo_info.repo, n)

\* the open change n of a repository as the hosting API returns it: change 1
\* is not revertable and depends on nothing, change 2 depends on #1, every
\* later change n depends on #(n-1) and on change 1 of the other repository
QL(repo_info, n, t) ==
    [number |-> n,
     baseIsDefault |-> TRUE,
     isDraft |-> FALSE,
     locked |-> FALSE,
     labels |-> IF n = 1 THEN {"Testing on Zeta", "Not Revertable"} ELSE {"Testing on Zeta"},
     permalink |-> PermalinkOf(repo_info, n),
     updatedAt |-> t,
     bodyText |-> IF n = 1 THEN <<TextLine>>
                  ELSE IF n = 2 THEN <<DepLine(HashText("", 1))>>
                  ELSE <<DepLine(HashText("", n - 1)), TextLine,
                         DepLine(UrlText(repo_info.owner, OtherRepo(repo_info.repo), 1))>>]

\* sequences without repetition of at most k elements of S
RECURSIVE Arrangements(_, _)
Arrangements(S, k) ==
    IF k = 0 THEN {<<>>}
    ELSE LET shorter == Arrangements(S, k - 1)
         IN  shorter \cup { Append(q, x) : q \in { a \in shorter : Len(a) = k - 1 }, x \in S }

NoRepeat(q) == \A i, j \in 1..Len(q) : i # j => q[i] # q[j]

\* what one paged fetch of the open changes can return at time t
FetchChoices(repo_info, t, most) ==
    LET orders == { q \in Arrangements(1..NumPr, most) : NoRepeat(q) }
    IN  UNION { { [i \in 1..Len(q) |-> QL(repo_info, q[i], ts[i])] : ts \in [1..Len(q) -> {0, t}] } : q \in orders }

\* merge commit of a change, as git merge --no-ff -m "Merge '<title>' into dev" makes it
MergeCommit(permalink, date) == Commit(TOOL_NAME, "Merge", EmptyText, date, permalink)

RECURSIVE MergeCommits(_, _)
MergeCommits(permalinks, date) ==
    IF permalinks = <<>> THEN <<>>
    ELSE Append(MergeCommits(Tail(permalinks), date), MergeCommit(Head(permalinks), date))

\* an integration branch as an earlier release of the tool left it: the
\* status commit carries the YAML text itself (commit(repo, "Dev Branch
\* Status", yaml.stringify(state)))
LegacyDev(base, included) ==
    Branch(base, <<Commit(TOOL_NAME, STATUS_SUBJECT, yaml_stringify(DevBranchStatus(included, <<>>, <<>>)), 0, Null)>>
                 \o MergeCommits(included, 0))

OverlayBranch(base) == Branch(base, <<Commit("someone", "overlay work", EmptyText, 0, Null)>>)

\* the included lists an existing integration branch may carry
PriorChoices(repo_info) ==
    { <<>>, <<PermalinkOf(repo_info, 1)>>, <<PermalinkOf(repo_info, 2)>>,
      <<PermalinkOf(repo_info, 1), PermalinkOf(repo_info, 2)>> }

\* the states a remote repository can be in before the first run
RemoteChoices(repo_info) ==
    { [master |-> 1,
       branches |-> [b \in BranchNames |-> IF b = dev_branch THEN dev ELSE IF b = dev_custom THEN custom ELSE Null],
       bodiesBelow |-> bodies,
       tags |-> <<>>,
       merged |-> <<>>,
       workflow |-> TRUE] :
         dev \in {Null} \cup { LegacyDev(base, p) : base \in {0, 1}, p \in PriorChoices(repo_info) },
         custom \in {Null, OverlayBranch(1)},
         bodies \in BodyKinds }

(***************************************************************************)
(* State.                                                                  *)
(***************************************************************************)
VARIABLES
    repo_ids,                 \* the repositories of the run, in order
    dryrun,                   \* --dryrun
    remote,                   \* remote[repo_id]: the hosted repository
    clock,                    \* the date commits of the current run carry
    runs,                     \* program runs started so far
    pc,                       \* position of the running program
    ri,                       \* index into repo_ids of the repository in work
    wc,                       \* its working copy, Null when none is cloned
    prs,                      \* get_prs's result for it
    decision,                 \* needs_update's result for it, Null before
    previously_included_prs,
    merged,
    mi,                       \* index into prs.prs of the next change to merge
    state,                    \* the DevBranchStatus committed, Null before
    error,                    \* the error thrown, Null when none
    events,                   \* what the current cycle did so far, in order
    before,                   \* the remote as the current cycle found it
    fetchMax,                 \* most open changes one fetch returns in this behaviour
    fetched,                  \* the response to the fetch where the behaviour fixes it, else <<>>
    sched,                    \* the scheduler's tables, graph and loop positions
    poll                      \* the wait_for_action call in progress or last ended

vars == <<repo_ids, dryrun, remote, clock, runs, pc, ri, wc, prs, decision,
          previously_included_prs, merged, mi, state, error, events, before, fetchMax, fetched,
          sched, poll>>

\* what the scheduler leaves alone, and what merge_prs_into_dev leaves alone
mergeVars == <<clock, runs, wc, prs, decision, previously_included_prs, merged, mi, state,
               before, fetchMax, fetched>>
schedVars == <<sched, poll>>

repo_id == repo_ids[ri]

Event(op, arg) == [op |-> op, arg |-> arg]

Thrown(message) == [message |-> message]

NoPrs == [prs |-> <<>>, dependencies |-> <<>>]

\* the locals of merge_prs_into_dev before the call
CycleStart ==
    /\ wc' = Null
    /\ prs' = NoPrs
    /\ decision' = Null
    /\ previously_included_prs' = <<>>
    /\ merged' = <<>>
    /\ mi' = 1
    /\ state' = Null
    /\ error' = Null
    /\ events' = <<>>

(***************************************************************************)
(* merge_prs_into_dev, one action per step.                                *)
(***************************************************************************)
\* lines 79-92: unclone, clone, make the integration branch local if the
\* remote has it, fetch and resolve the open changes
MClone ==
    /\ pc = "clone"
    /\ \E allPRs \in (IF fetched = <<>> THEN FetchChoices(parse_repo_id(repo_id), clock, fetchMax)
                       ELSE {fetched}) :
        LET w0 == clone_repo(remote[repo_id])
            co == checkout_branch(w0, remote[repo_id], dev_branch)
            w1 == IF co.ok THEN checkout_branch(co.wc, remote[repo_id], "-").wc ELSE w0
            info == get_prs(repo_id, allPRs, <<>>)
        IN  /\ wc' = w1
            /\ IF info = Null
               THEN /\ prs' = NoPrs
                    /\ error' = Thrown("Dependency Cycle Found")
                    /\ pc' = "finally"
               ELSE /\ prs' = info
                    /\ error' = Null
                    /\ pc' = "decide"
    /\ events' = <<>>
    /\ before' = remote
    /\ UNCHANGED <<repo_ids, dryrun, remote, clock, runs, ri, decision,
                   previously_included_prs, merged, mi, state, fetchMax, fetched, sched, poll>>

\* what needs_update reads from the working copy
DevStatus(w, rem) == get_dev_branch_status(get_commits(w.local[dev_branch], STATUS_SCAN, rem.bodiesBelow))

CommitsToMaster(w) == w.master - w.local[dev_branch].base

\* lines 94-96 with needs_update (lines 8-76)
MDecide ==
    /\ pc = "decide"
    /\ LET rem == remote[repo_id]
           dev_update == TipDate(wc.local[dev_branch], 0)
           dev_custom_update == TipDate(wc.local[dev_custom], 0)
           d == needs_update(prs.prs, dev_update, dev_custom_update,
                             IF dev_update # Null THEN DevStatus(wc, rem) ELSE Null,
                             IF dev_update # Null THEN CommitsToMaster(wc) ELSE 0)
       IN  /\ decision' = d
           /\ remote' = IF d.delete_dev /\ ~dryrun
                        THEN [remote EXCEPT ![repo_id] = delete_dev(rem, dryrun)]
                        ELSE remote
           /\ events' = IF d.delete_dev /\ ~dryrun THEN Append(events, Event("delete_dev", dev_branch)) ELSE events
           /\ pc' = IF d.result THEN "snapshot" ELSE "finally"
    /\ UNCHANGED <<sched, poll, before, fetchMax, fetched, repo_ids, dryrun, clock, runs, ri, wc, prs,
                   previously_included_prs, merged, mi, state, error>>

\* lines 98-106: the prior state's included list; status["Included PRs"] of
\* a status that is not a mapping is undefined and .forEach on it throws
MSnapshot ==
    /\ pc = "snapshot"
    /\ LET co == checkout_branch(wc, remote[repo_id], dev_branch)
           status == IF co.ok THEN DevStatus(co.wc, remote[repo_id]) ELSE Null
       IN  /\ wc' = co.wc
           /\ IF status # Null /\ ~IsMap(status)
              THEN /\ previously_included_prs' = <<>>
                   /\ error' = Thrown("TypeError: Cannot read properties of undefined (reading 'forEach')")
                   /\ pc' = "finally"
              ELSE /\ previously_included_prs' = ArrayProp(status, "Included PRs")
                   /\ error' = error
                   /\ pc' = "reset"
    /\ UNCHANGED <<sched, poll, before, fetchMax, fetched, repo_ids, dryrun, remote, clock, runs, ri, prs, decision,
                   merged, mi, state, events>>

\* lines 108-115: the integration branch is cut anew from the default branch
MReset ==
    /\ pc = "reset"
    /\ LET w1 == checkout_branch(wc, remote[repo_id], default_branch).wc
           w2 == delete_branch(w1, dev_branch)
       IN  wc' = checkout_new_branch(w2, dev_branch)
    /\ merged' = <<>>
    /\ mi' = 1
    /\ events' = Append(events, Event("reset", dev_branch))
    /\ pc' = IF Len(prs.prs) = 0 THEN "custom" ELSE "merge"
    /\ UNCHANGED <<sched, poll, before, fetchMax, fetched, repo_ids, dryrun, remote, clock, runs, ri, prs, decision,
                   previously_included_prs, state, error>>

\* variant that escalates every failed merge
Escalates_Always(pr, previously) == TRUE

\* line 133
Escalates(pr, previously) == NOT_REVERTABLE \in pr.labels /\ InSeq(pr.permalink, previously)

\* lines 117-139, one change: ok is whether git merge succeeds
MMerge ==
    /\ pc = "merge"
    /\ \E ok \in BOOLEAN :
        LET pr == prs.prs[mi]
            w1 == checkout_pr(wc)
            w2 == checkout_branch(w1, remote[repo_id], dev_branch).wc
            pushed == force_push(w2, remote[repo_id], dev_error)
            last == mi = Len(prs.prs)
        IN  IF ok
            THEN /\ wc' = CommitOn(w2, dev_branch, MergeCommit(pr.permalink, clock))
                 /\ merged' = Append(merged, pr)
                 /\ events' = Append(events, Event("merge", pr.permalink))
                 /\ mi' = mi + 1
                 /\ pc' = IF last THEN "custom" ELSE "merge"
                 /\ UNCHANGED <<remote, error>>
            ELSE IF Escalates(pr, previously_included_prs)
            THEN /\ wc' = w2
                 /\ merged' = merged
                 /\ mi' = mi
                 /\ remote' = IF dryrun THEN remote ELSE [remote EXCEPT ![repo_id] = pushed.remote]
                 /\ events' = events \o <<Event("merge_failed", pr.permalink), Event("abort_merge", pr.permalink)>>
                                     \o (IF ~dryrun /\ pushed.ok THEN <<Event("force_push", dev_error)>> ELSE <<>>)
                 /\ error' = IF ~dryrun /\ ~pushed.ok
                             THEN Thrown("error: src refspec does not match any")
                             ELSE Thrown("Could not merge non-revertable PR")
                 /\ pc' = "finally"
            ELSE /\ wc' = w2
                 /\ merged' = merged
                 /\ events' = events \o <<Event("merge_failed", pr.permalink), Event("abort_merge", pr.permalink)>>
                 /\ mi' = mi + 1
                 /\ pc' = IF last THEN "custom" ELSE "merge"
                 /\ UNCHANGED <<remote, error>>
    /\ UNCHANGED <<sched, poll, before, fetchMax, fetched, repo_ids, dryrun, clock, runs, ri, prs, decision,
                   previously_included_prs, state>>

\* lines 141-159: the overlay branch, when it can be checked out
MCustom ==
    /\ pc = "custom"
    /\ \E ok \in BOOLEAN :
        LET co == checkout_branch(wc, remote[repo_id], dev_custom)
            w2 == checkout_branch(co.wc, remote[repo_id], dev_branch).wc
            pushed == force_push(w2, remote[repo_id], dev_error)
        IN  IF ~co.ok
            THEN /\ wc' = co.wc
                 /\ pc' = "commit"
                 /\ UNCHANGED <<remote, error, events>>
            ELSE IF ok
            THEN /\ wc' = CommitOn(w2, dev_branch, Commit(TOOL_NAME, "Merge branch", EmptyText, clock, [branch |-> dev_custom]))
                 /\ events' = Append(events, Event("merge_custom", [branch |-> dev_custom]))
                 /\ pc' = "commit"
                 /\ UNCHANGED <<remote, error>>
            ELSE /\ wc' = w2
                 /\ remote' = IF dryrun THEN remote ELSE [remote EXCEPT ![repo_id] = pushed.remote]
                 /\ events' = Append(events, Event("merge_custom_failed", [branch |-> dev_custom]))
                                     \o (IF ~dryrun /\ pushed.ok THEN <<Event("force_push", dev_error)>> ELSE <<>>)
                 /\ error' = IF ~dryrun /\ ~pushed.ok
                             THEN Thrown("error: src refspec does not match any")
                             ELSE Thrown("Could not merge dev-custom")
                 /\ pc' = "finally"
    /\ UNCHANGED <<sched, poll, before, fetchMax, fetched, repo_ids, dryrun, clock, runs, ri, prs, decision,
                   previously_included_prs, merged, mi, state>>

\* variant that writes only the dependencies the merged changes declare
NewState_MergedOnly(mergedPrs, previously, dependencies) ==
    LET declared(d) == \E i \in 1..Len(mergedPrs) : InSeq(d, mergedPrs[i].dependencies)
        kept == SelectSeq(dependencies, declared)
    IN  DevBranchStatus(Permalinks(mergedPrs),
                        Difference(previously, Permalinks(mergedPrs)),
                        [i \in 1..Len(kept) |-> stringify_pr(kept[i])])

\* lines 163-167
NewState(mergedPrs, previously, dependencies) ==
    DevBranchStatus(Permalinks(mergedPrs),
                    Difference(previously, Permalinks(mergedPrs)),
                    [i \in 1..Len(dependencies) |-> stringify_pr(dependencies[i])])

\* line 170: the commit message body
StateMessage(st) == base64(yaml_stringify(st))

\* lines 161-170: spotless_apply (sa is whether it leaves its commit), then
\* the state commit
MCommit ==
    /\ pc = "commit"
    /\ \E sa \in BOOLEAN :
        LET w1 == IF sa THEN CommitOn(wc, dev_branch, Commit(TOOL_NAME, "sa", EmptyText, clock, Null)) ELSE wc
            st == NewState(merged, previously_included_prs, prs.dependencies)
        IN  /\ state' = st
            /\ wc' = CommitOn(w1, dev_branch, Commit(TOOL_NAME, STATUS_SUBJECT, StateMessage(st), clock, Null))
    /\ events' = Append(events, Event("commit", STATUS_SUBJECT))
    /\ pc' = "push"
    /\ UNCHANGED <<sched, poll, before, fetchMax, fetched, repo_ids, dryrun, remote, clock, runs, ri, prs, decision,
                   previously_included_prs, merged, mi, error>>

\* variant that pushes in a dry run too
MPush_Always ==
    /\ pc = "push"
    /\ remote' = [remote EXCEPT ![repo_id] = force_push(wc, remote[repo_id], dev_branch).remote]
    /\ events' = Append(events, Event("force_push", dev_branch))
    /\ pc' = "finally"
    /\ UNCHANGED <<sched, poll, before, fetchMax, fetched, repo_ids, dryrun, clock, runs, ri, wc, prs, decision,
                   previously_included_prs, merged, mi, state, error>>

\* line 172
MPush ==
    /\ pc = "push"
    /\ remote' = IF dryrun THEN remote
                 ELSE [remote EXCEPT ![repo_id] = force_push(wc, remote[repo_id], dev_branch).remote]
    /\ events' = IF dryrun THEN events ELSE Append(events, Event("force_push", dev_branch))
    /\ pc' = "finally"
    /\ UNCHANGED <<sched, poll, before, fetchMax, fetched, repo_ids, dryrun, clock, runs, ri, wc, prs, decision,
                   previously_included_prs, merged, mi, state, error>>

\* lines 173-175 and the loop of lines 184-186: the working copy is removed
\* unless dry-run; an error leaves the loop, otherwise the next repository
\* is taken up
MFinally ==
    /\ pc = "finally"
    /\ IF error # Null
       THEN /\ pc' = "crashed"
            /\ wc' = IF dryrun THEN wc ELSE Null
            /\ UNCHANGED <<ri, prs, decision, previously_included_prs, merged, mi, state, error, events>>
       ELSE IF ri < Len(repo_ids)
       THEN /\ pc' = "clone"
            /\ ri' = ri + 1
            /\ CycleStart
       ELSE /\ pc' = "done"
            /\ wc' = IF dryrun THEN wc ELSE Null
            /\ UNCHANGED <<ri, prs, decision, previously_included_prs, merged, mi, state, error, events>>
    /\ UNCHANGED <<repo_ids, dryrun, remote, clock, runs, before, fetchMax, fetched, sched, poll>>

\* the program is started again later; meanwhile the default branches may
\* have received commits
MStartRun ==
    /\ pc \in {"done", "crashed"}
    /\ runs < MaxRuns
    /\ runs' = runs + 1
    /\ clock' = clock + 1
    /\ \E advance \in BOOLEAN :
        remote' = [r \in DOMAIN remote |-> [remote[r] EXCEPT !.master = IF advance THEN @ + 1 ELSE @]]
    /\ pc' = "clone"
    /\ ri' = 1
    /\ CycleStart
    /\ UNCHANGED <<repo_ids, dryrun, before, fetchMax, fetched, sched, poll>>

InitMerge ==
    /\ repo_ids = <<RepoX>>
    /\ dryrun \in BOOLEAN
    /\ remote \in [{RepoX} -> RemoteChoices(parse_repo_id(RepoX))]
    /\ clock = 1
    /\ runs = 1
    /\ pc = "clone"
    /\ ri = 1
    /\ wc = Null
    /\ prs = NoPrs
    /\ decision = Null
    /\ previously_included_prs = <<>>
    /\ merged = <<>>
    /\ mi = 1
    /\ state = Null
    /\ error = Null
    /\ events = <<>>
    /\ before = remote
    /\ fetchMax = MaxFetch
    /\ fetched = <<>>
    /\ sched = Null
    /\ poll = Null

NextMerge ==
    \/ MClone
    \/ MDecide
    \/ MSnapshot
    \/ MReset
    \/ MMerge
    \/ MCustom
    \/ MCommit
    \/ MPush
    \/ MFinally

Init == InitMerge

Next == NextMerge

Spec == Init /\ [][Next]_vars

(***************************************************************************)
(* The release scheduler (tag_dev.ts), one action per step.                *)
(***************************************************************************)
\* lines 10-26 and 214-218: the tables before the scan; raw is the set of
\* run statuses the hosting API answers with in this behaviour
SchedStart(repos, raw) ==
    [masterPRs |-> [r \in Range(repos) |-> Unset],
     devPRs |-> [r \in Range(repos) |-> Unset],
     masterDependencies |-> [r \in Range(repos) |-> Unset],
     devDependencies |-> [r \in Range(repos) |-> Unset],
     has_dev |-> [r \in Range(repos) |-> FALSE],
     locations |-> <<>>,
     graph |-> EmptyGraph,
     order |-> <<>>,
     ti |-> 1,
     fi |-> 1,
     clones |-> [r \in Range(repos) |-> Null],
     tag_name |-> Null,
     deps |-> <<>>,
     di |-> 1,
     tag_overrides |-> <<>>,
     passed_workflows |-> {},
     workflows |-> {},
     master_tags |-> [r \in Range(repos) |-> Null],
     pre_tags |-> [r \in Range(repos) |-> Null],
     tries |-> 0,
     raw |-> raw]

\* lines 69-78, one repository
SScan ==
    /\ pc = "scan"
    /\ LET repo == repo_ids[ri]
           w == clone_repo(remote[repo])
           m == fetch_master_prs(repo, w, remote[repo])
           d == fetch_dev_prs(w, remote[repo])
       IN  IF m.threw
           THEN /\ error' = Thrown("Dependency Cycle Found")
                /\ pc' = "failed"
                /\ UNCHANGED <<sched, ri>>
           ELSE /\ sched' = [sched EXCEPT !.masterPRs[repo] = m.prs,
                                          !.masterDependencies[repo] = m.dependencies,
                                          !.devPRs[repo] = d.prs,
                                          !.devDependencies[repo] = d.dependencies,
                                          !.has_dev[repo] = d.has_dev]
                /\ ri' = IF ri < Len(repo_ids) THEN ri + 1 ELSE ri
                /\ pc' = IF ri < Len(repo_ids) THEN "scan" ELSE "graph"
                /\ error' = error
    /\ UNCHANGED <<repo_ids, dryrun, remote, events, poll, mergeVars>>

\* lines 115-242: locations, graph, dependency check, tagging order
SGraph ==
    /\ pc = "graph"
    /\ LET locations == pr_locations(sched.devPRs, sched.masterPRs, repo_ids)
           nodes == TargetNodes(EmptyGraph, sched.has_dev, repo_ids)
           built == AllDependencyEdges([graph |-> nodes, success |-> TRUE], locations,
                                       sched.masterDependencies, sched.devDependencies, repo_ids)
           sorted == overallOrder(built.graph)
       IN  /\ sched' = [sched EXCEPT !.locations = locations,
                                     !.graph = built.graph,
                                     !.order = IF built.success /\ sorted.ok THEN sorted.order ELSE <<>>]
           /\ error' = IF ~built.success THEN Thrown("PR dependency check failed")
                       ELSE IF ~sorted.ok THEN Thrown("Dependency Cycle Found")
                       ELSE error
           /\ pc' = IF built.success /\ sorted.ok THEN "tag" ELSE "failed"
    /\ UNCHANGED <<repo_ids, dryrun, remote, ri, events, poll, mergeVars>>

\* the repository and the branch of a target
TargetRepo(target) == target[1]
TargetBranch(target) == IF target[2] = "dev" THEN dev_branch ELSE default_branch

\* variant that leaves the working copy in place
NextTarget_KeepClone(s, repo, w) ==
    [s EXCEPT !.clones[repo] = w,
              !.ti = @ + 1,
              !.tag_name = Null,
              !.deps = <<>>,
              !.di = 1,
              !.tag_overrides = <<>>]

\* lines 328-330 and the step to the next target of the tagging loop
NextTarget(s, repo, w) ==
    [s EXCEPT !.clones[repo] = IF dryrun THEN w ELSE Null,
              !.ti = @ + 1,
              !.tag_name = Null,
              !.deps = <<>>,
              !.di = 1,
              !.tag_overrides = <<>>]

AfterTargetPc(s) == IF s.ti < Len(s.order) THEN "tag" ELSE "final"

\* lines 242-273: clone, latest tag, checkout, the already-tagged test
STag ==
    /\ pc = "tag"
    /\ LET target == sched.order[sched.ti]
           repo == TargetRepo(target)
           w0 == IF sched.clones[repo] # Null THEN sched.clones[repo] ELSE clone_repo(remote[repo])
           latestTag == LatestTag(w0.tags)
           co == checkout_branch(w0, remote[repo], TargetBranch(target))
           tag_name == increment_tag(latestTag, target[2] = "dev")
       IN  IF ~co.ok \/ get_tag_for_ref(co.wc, TargetBranch(target))
           THEN /\ sched' = NextTarget(sched, repo, co.wc)
                /\ pc' = AfterTargetPc(sched)
                /\ events' = Append(events, Event("skip", target))
           ELSE /\ sched' = [sched EXCEPT !.clones[repo] = co.wc,
                                          !.tag_name = tag_name,
                                          !.pre_tags[repo] = IF target[2] = "dev" THEN tag_name ELSE @,
                                          !.master_tags[repo] = IF target[2] = "dev" THEN @ ELSE tag_name,
                                          !.deps = dependenciesOf(sched.graph, target),
                                          !.di = 1,
                                          !.tag_overrides = <<>>]
                /\ pc' = "deps"
                /\ events' = events
    /\ UNCHANGED <<repo_ids, dryrun, remote, ri, error, poll, mergeVars>>

\* the statuses of a pipeline run the lookup of get_action_state knows, an
\* unlisted one, an empty one, and "none" for a response without a run
RawStatuses ==
    {"completed", "action_required", "cancelled", "failure", "neutral", "skipped", "stale", "success",
     "timed_out", "in_progress", "queued", "requested", "waiting", "pending", "unlisted", "", "none"}

\* get_action_state
get_action_state(raw) ==
    IF raw = "none" THEN "null"
    ELSE IF raw \in {"completed", "success"} THEN "completed"
    ELSE IF raw \in {"cancelled", "failure", "neutral", "skipped", "stale", "timed_out"} THEN "failed"
    ELSE IF raw \in {"in_progress", "queued", "requested", "waiting", "pending"} THEN "in-progess"
    ELSE "unknown"

\* number of polls of wait_for_action after its first look
POLLS == 6

\* wait_for_action up to its first sleep: finished with true, or polling
FirstLook(phase, target, raw) ==
    LET action == get_action_state(raw)
    IN  [phase |-> phase, target |-> target, i |-> 0, obs |-> <<action>>,
         result |-> IF action = "completed" THEN "true" ELSE "pending"]

\* variant of the loop without the bound on i
OnePoll_Unbounded(p, raw) ==
    LET workflow_status == get_action_state(raw)
    IN  [p EXCEPT !.obs = Append(@, workflow_status),
                  !.i = @ + 1,
                  !.result = IF workflow_status \in {"failed", "completed"} THEN "false" ELSE "pending"]

\* the loop body of wait_for_action for i = p.i, and the loop's end
OnePoll(p, raw) ==
    LET workflow_status == get_action_state(raw)
    IN  [p EXCEPT !.obs = Append(@, workflow_status),
                  !.i = @ + 1,
                  !.result = IF workflow_status \in {"failed", "completed"} THEN "false"
                             ELSE IF p.i + 1 = POLLS THEN "false"
                             ELSE "pending"]

\* variant without the test that passes over the target's own stable variant
SDep_OwnStableToo ==
    /\ pc = "deps"
    /\ LET target == sched.order[sched.ti]
           dep_target == sched.deps[sched.di]
           dep_repo == TargetRepo(dep_target)
           override == IF dep_target[2] = "dev" THEN sched.pre_tags[dep_repo] ELSE sched.master_tags[dep_repo]
           noted == [sched EXCEPT !.tag_overrides = (parse_repo_id(dep_repo).repo :> override) @@ @,
                                  !.di = @ + 1]
       IN  IF sched.di > Len(sched.deps)
           THEN /\ pc' = "write"
                /\ UNCHANGED <<sched, poll>>
           ELSE IF dep_target \in sched.passed_workflows
           THEN /\ sched' = noted
                /\ pc' = "deps"
                /\ poll' = poll
           ELSE IF dep_target \notin sched.workflows
           THEN /\ sched' = [noted EXCEPT !.passed_workflows = @ \cup {dep_target}]
                /\ pc' = "deps"
                /\ poll' = poll
           ELSE \E raw \in sched.raw :
                LET p == FirstLook("tag", dep_target, raw)
                IN  /\ poll' = p
                    /\ IF p.result = "true"
                       THEN /\ sched' = [noted EXCEPT !.passed_workflows = @ \cup {dep_target}]
                            /\ pc' = "deps"
                       ELSE /\ sched' = [sched EXCEPT !.tag_overrides = noted.tag_overrides]
                            /\ pc' = "poll"
    /\ UNCHANGED <<repo_ids, dryrun, remote, ri, error, events, mergeVars>>

\* lines 275-306, one dependency of the target being tagged
SDep ==
    /\ pc = "deps"
    /\ LET target == sched.order[sched.ti]
           dep_target == sched.deps[sched.di]
           dep_repo == TargetRepo(dep_target)
           override == IF dep_target[2] = "dev" THEN sched.pre_tags[dep_repo] ELSE sched.master_tags[dep_repo]
           noted == [sched EXCEPT !.tag_overrides = (parse_repo_id(dep_repo).repo :> override) @@ @,
                                  !.di = @ + 1]
       IN  IF sched.di > Len(sched.deps)
           THEN /\ pc' = "write"
                /\ UNCHANGED <<sched, poll>>
           ELSE IF dep_repo = TargetRepo(target) /\ dep_target[2] = "master"
           THEN /\ sched' = [sched EXCEPT !.di = @ + 1]
                /\ pc' = "deps"
                /\ poll' = poll
           ELSE IF dep_target \in sched.passed_workflows
           THEN /\ sched' = noted
                /\ pc' = "deps"
                /\ poll' = poll
           ELSE IF dep_target \notin sched.workflows
           THEN /\ sched' = [noted EXCEPT !.passed_workflows = @ \cup {dep_target}]
                /\ pc' = "deps"
                /\ poll' = poll
           ELSE \E raw \in sched.raw :
                LET p == FirstLook("tag", dep_target, raw)
                IN  /\ poll' = p
                    /\ IF p.result = "true"
                       THEN /\ sched' = [noted EXCEPT !.passed_workflows = @ \cup {dep_target}]
                            /\ pc' = "deps"
                       ELSE /\ sched' = [sched EXCEPT !.tag_overrides = noted.tag_overrides]
                            /\ pc' = "poll"
    /\ UNCHANGED <<repo_ids, dryrun, remote, ri, error, events, mergeVars>>

\* variant in which a failed wait of the tagging loop is not thrown
SPoll_NoThrow ==
    /\ pc = "poll"
    /\ \E raw \in sched.raw :
        LET p == OnePoll(poll, raw)
        IN  /\ poll' = p
            /\ pc' = IF p.result = "pending" THEN "poll" ELSE IF p.phase = "tag" THEN "deps" ELSE "failed"
            /\ error' = IF p.result # "pending" /\ p.phase = "final" THEN Thrown("Could not build target") ELSE error
            /\ sched' = IF p.result # "pending" /\ p.phase = "tag" THEN [sched EXCEPT !.di = @ + 1] ELSE sched
    /\ UNCHANGED <<repo_ids, dryrun, remote, ri, events, mergeVars>>

\* wait_for_action lines 238-259, one poll; a wait that ends with false makes
\* the caller throw (lines 297-300 inside try/finally, lines 348-351)
SPoll ==
    /\ pc = "poll"
    /\ \E raw \in sched.raw :
        LET p == OnePoll(poll, raw)
            repo == TargetRepo(sched.order[sched.ti])
        IN  /\ poll' = p
            /\ IF p.result = "pending"
               THEN /\ pc' = "poll"
                    /\ UNCHANGED <<sched, error>>
               ELSE /\ pc' = "failed"
                    /\ error' = IF p.phase = "tag" THEN Thrown("Could not build dependency")
                                ELSE Thrown("Could not build target")
                    /\ sched' = IF p.phase = "tag" /\ ~dryrun THEN [sched EXCEPT !.clones[repo] = Null]
                                ELSE sched
    /\ UNCHANGED <<repo_ids, dryrun, remote, ri, events, mergeVars>>

\* most lookups of the pipeline run push_tag makes
PUSH_TRIES == 3

\* update_repo: the commit "update" when the buildscript or the dependency
\* file changed
UpdateCommit(w, name, date) ==
    IF name = default_branch THEN [w EXCEPT !.master = @ + 1]
    ELSE CommitOn(w, name, Commit(TOOL_NAME, "update", EmptyText, date, Null))

\* git push -f origin <branch> in the scheduler, the default branch included
PushBranch(w, rem, name) ==
    IF name = default_branch THEN [rem EXCEPT !.master = w.master]
    ELSE force_push(w, rem, name).remote

\* git push origin tag <tag_name>
PushTag(w, rem, tag) ==
    LET others == SelectSeq(rem.tags, LAMBDA t : t.tag # tag)
        mine == SelectSeq(w.tags, LAMBDA t : t.tag = tag)
    IN  [rem EXCEPT !.tags = others \o mine]

\* lines 308-316: update_repo, force_push, create_tag and push_tag up to its
\* loop (git push origin tag, the test for the workflow file); without the
\* file, and in a dry run, the target is done (lines 317-331)
SWrite ==
    /\ pc = "write"
    /\ \E dirty \in BOOLEAN :
        LET target == sched.order[sched.ti]
            repo == TargetRepo(target)
            branch == TargetBranch(target)
            w1 == IF dirty THEN UpdateCommit(sched.clones[repo], branch, clock) ELSE sched.clones[repo]
            w2 == create_tag(w1, sched.tag_name, branch)
            r1 == PushBranch(w1, remote[repo], branch)
            r2 == PushTag(w2, r1, sched.tag_name)
        IN  /\ remote' = IF dryrun THEN remote ELSE [remote EXCEPT ![repo] = r2]
            /\ events' = events
                         \o (IF dirty THEN <<Event("update", target)>> ELSE <<>>)
                         \o (IF dryrun THEN <<>> ELSE <<Event("force_push", target)>>)
                         \o <<Event("create_tag", target)>>
                         \o (IF dryrun THEN <<>> ELSE <<Event("push_tag", target)>>)
            /\ IF ~dryrun /\ remote[repo].workflow
               THEN /\ sched' = [sched EXCEPT !.clones[repo] = w2, !.tries = 0]
                    /\ pc' = "lookup"
               ELSE /\ sched' = NextTarget(sched, repo, w2)
                    /\ pc' = AfterTargetPc(sched)
    /\ UNCHANGED <<repo_ids, dryrun, ri, error, poll, mergeVars>>

\* variant in which the lookups that found no run end the scheduler
SLookup_GiveUpThrows ==
    /\ pc = "lookup"
    /\ LET target == sched.order[sched.ti]
           repo == TargetRepo(target)
           tries == sched.tries + 1
           done == [NextTarget(sched, repo, sched.clones[repo]) EXCEPT !.tries = 0]
       IN  IF tries > PUSH_TRIES
           THEN /\ sched' = [sched EXCEPT !.clones[repo] = Null, !.tries = 0]
                /\ pc' = "failed"
                /\ error' = Thrown("Could not find action run")
           ELSE /\ error' = error
                /\ \E workflow_run \in BOOLEAN :
                    IF workflow_run
                    THEN /\ sched' = [done EXCEPT !.workflows = @ \cup {target}]
                         /\ pc' = AfterTargetPc(sched)
                    ELSE /\ sched' = [sched EXCEPT !.tries = tries]
                         /\ pc' = "lookup"
    /\ UNCHANGED <<repo_ids, dryrun, remote, ri, events, poll, mergeVars>>

\* push_tag, one pass of its loop (branches.ts:153-181): tries++, the return
\* of null after PUSH_TRIES lookups, else one lookup of the pipeline run;
\* then lines 317-331 of the tagging loop
SLookup ==
    /\ pc = "lookup"
    /\ LET target == sched.order[sched.ti]
           repo == TargetRepo(target)
           tries == sched.tries + 1
           done == [NextTarget(sched, repo, sched.clones[repo]) EXCEPT !.tries = 0]
       IN  IF tries > PUSH_TRIES
           THEN /\ sched' = done
                /\ pc' = AfterTargetPc(sched)
           ELSE \E workflow_run \in BOOLEAN :
                IF workflow_run
                THEN /\ sched' = [done EXCEPT !.workflows = @ \cup {target}]
                     /\ pc' = AfterTargetPc(sched)
                ELSE /\ sched' = [sched EXCEPT !.tries = tries]
                     /\ pc' = "lookup"
    /\ UNCHANGED <<repo_ids, dryrun, remote, ri, error, events, poll, mergeVars>>

\* variant that waits for no pipeline run after the tagging loop
SFinal_NoWait ==
    /\ pc = "final"
    /\ sched' = [sched EXCEPT !.fi = @ + 1]
    /\ pc' = IF sched.fi < Len(sched.order) THEN "final" ELSE "finished"
    /\ UNCHANGED <<repo_ids, dryrun, remote, ri, error, events, poll, mergeVars>>

\* lines 335-353, one target of the final loop
SFinal ==
    /\ pc = "final"
    /\ LET target == sched.order[sched.fi]
           next == [sched EXCEPT !.fi = @ + 1]
           nextPc == IF sched.fi < Len(sched.order) THEN "final" ELSE "finished"
       IN  IF target \in sched.passed_workflows \/ target \notin sched.workflows
           THEN /\ sched' = next
                /\ pc' = nextPc
                /\ poll' = poll
           ELSE \E raw \in sched.raw :
                LET p == FirstLook("final", target, raw)
                IN  /\ poll' = p
                    /\ sched' = IF p.result = "true" THEN next ELSE sched
                    /\ pc' = IF p.result = "true" THEN nextPc ELSE "poll"
    /\ UNCHANGED <<repo_ids, dryrun, remote, ri, error, events, mergeVars>>

NextTag ==
    \/ SScan
    \/ SGraph
    \/ STag
    \/ SDep
    \/ SPoll
    \/ SWrite
    \/ SLookup
    \/ SFinal

(***************************************************************************)
(* Specifications of the scheduler alone.                                  *)
(***************************************************************************)
\* an integration branch a cycle built: merge commits, then the status
\* commit carrying message
BuiltDev(base, st, message) ==
    Branch(base, <<Commit(TOOL_NAME, STATUS_SUBJECT, message, 0, Null)>> \o MergeCommits(st["Included PRs"], 0))

\* the integration branches the scheduler may find: none, one whose status
\* is plain YAML, one whose status is as merge_prs_into_dev writes it
DevChoices(st) == {Null, BuiltDev(1, st, yaml_stringify(st)), BuiltDev(1, st, StateMessage(st))}

\* repository Y includes its change 3, which depends on change 1 of X
StatusY ==
    DevBranchStatus(<<PermalinkOf(parse_repo_id(RepoY), 3)>>, <<>>, <<PermalinkOf(parse_repo_id(RepoX), 1)>>)

\* repository X includes its change 1
StatusX == DevBranchStatus(<<PermalinkOf(parse_repo_id(RepoX), 1)>>, <<>>, <<>>)

TagAt(values, pre, target) == [tag |-> ParsedTag(values, pre), target |-> target]

RemoteY ==
    { [master |-> 1,
       branches |-> [b \in BranchNames |-> IF b = dev_branch THEN dev ELSE Null],
       bodiesBelow |-> "",
       tags |-> tags,
       merged |-> <<>>,
       workflow |-> TRUE] :
         dev \in DevChoices(StatusY),
         tags \in {<<>>, <<TagAt(<<1, 0, 0>>, FALSE, Branch(0, <<>>))>>} }

RemoteX ==
    { [master |-> 1,
       branches |-> [b \in BranchNames |-> IF b = dev_branch THEN dev ELSE Null],
       bodiesBelow |-> "",
       tags |-> tags,
       merged |-> released,
       workflow |-> workflow] :
         dev \in DevChoices(StatusX),
         tags \in {<<>>, <<TagAt(<<1, 0, 0>>, FALSE, Branch(1, <<>>))>>, <<TagAt(<<1, 0, 0>>, FALSE, Branch(0, <<>>))>>},
         released \in {<<>>, <<[ql |-> QL(parse_repo_id(RepoX), 1, 0), rev |-> 1]>>},
         workflow \in BOOLEAN }
    \cup
    \* X#3, which depends on Y#1, was merged into the default branch
    { [master |-> 1,
       branches |-> [b \in BranchNames |-> Null],
       bodiesBelow |-> "",
       tags |-> <<TagAt(<<1, 0, 0>>, FALSE, Branch(0, <<>>))>>,
       merged |-> <<[ql |-> QL(parse_repo_id(RepoX), 3, 0), rev |-> 1]>>,
       workflow |-> TRUE] }

\* the variables of merge_prs_into_dev while only the scheduler runs
MergeIdle ==
    /\ clock = 1
    /\ runs = 1
    /\ wc = Null
    /\ prs = NoPrs
    /\ decision = Null
    /\ previously_included_prs = <<>>
    /\ merged = <<>>
    /\ mi = 1
    /\ state = Null
    /\ before = remote
    /\ fetchMax = MaxFetch
    /\ fetched = <<>>

\* a repository without integration branch, overlay branch and tags
FreshRemote(bodies) ==
    [master |-> 1,
     branches |-> [b \in BranchNames |-> Null],
     bodiesBelow |-> bodies,
     tags |-> <<>>,
     merged |-> <<>>,
     workflow |-> TRUE]

\* repository Z has no integration branch and an untagged default branch
RemoteZ ==
    [master |-> 1,
     branches |-> [b \in BranchNames |-> Null],
     bodiesBelow |-> "",
     tags |-> <<TagAt(<<1, 0, 0>>, FALSE, Branch(0, <<>>))>>,
     merged |-> <<>>,
     workflow |-> TRUE]

\* the scheduler over Y, X and Z, or over Y and Z only (X is not scanned)
InitTag ==
    /\ \/ /\ repo_ids = <<RepoY, RepoX, RepoZ>>
          /\ remote \in { (RepoY :> y) @@ (RepoX :> x) @@ (RepoZ :> RemoteZ) : y \in RemoteY, x \in RemoteX }
       \/ /\ repo_ids = <<RepoY, RepoZ>>
          /\ remote \in { (RepoY :> y) @@ (RepoX :> FreshRemote("")) @@ (RepoZ :> RemoteZ) : y \in RemoteY }
    /\ dryrun \in BOOLEAN
    /\ pc = "scan"
    /\ ri = 1
    /\ error = Null
    /\ events = <<>>
    /\ sched = SchedStart(repo_ids, {"in_progress", "completed", "failure"})
    /\ poll = Null
    /\ MergeIdle

SpecTag == InitTag /\ [][NextTag]_vars

\* the same repositories with pipeline runs that have ended when looked at
InitOrder ==
    /\ \/ /\ repo_ids = <<RepoY, RepoX, RepoZ>>
          /\ remote \in { (RepoY :> y) @@ (RepoX :> x) @@ (RepoZ :> RemoteZ) : y \in RemoteY, x \in RemoteX }
       \/ /\ repo_ids = <<RepoY, RepoZ>>
          /\ remote \in { (RepoY :> y) @@ (RepoX :> FreshRemote("")) @@ (RepoZ :> RemoteZ) : y \in RemoteY }
    /\ dryrun \in BOOLEAN
    /\ pc = "scan"
    /\ ri = 1
    /\ error = Null
    /\ events = <<>>
    /\ sched = SchedStart(repo_ids, {"completed", "failure"})
    /\ poll = Null
    /\ MergeIdle

SpecOrder == InitOrder /\ [][NextTag]_vars

\* one configuration in which X:dev is a dependency of Y:dev, with every
\* status the hosting API can answer
InitWait ==
    /\ repo_ids = <<RepoY, RepoX>>
    /\ dryrun = FALSE
    /\ remote = (RepoY :> [master |-> 1,
                           branches |-> [b \in BranchNames |->
                                           IF b = dev_branch THEN BuiltDev(1, StatusY, yaml_stringify(StatusY)) ELSE Null],
                           bodiesBelow |-> "", tags |-> <<>>, merged |-> <<>>, workflow |-> TRUE])
             @@ (RepoX :> [master |-> 1,
                           branches |-> [b \in BranchNames |->
                                           IF b = dev_branch THEN BuiltDev(1, StatusX, yaml_stringify(StatusX)) ELSE Null],
                           bodiesBelow |-> "", tags |-> <<>>, merged |-> <<>>, workflow |-> TRUE])
    /\ pc = "scan"
    /\ ri = 1
    /\ error = Null
    /\ events = <<>>
    /\ sched = SchedStart(repo_ids, RawStatuses)
    /\ poll = Null
    /\ MergeIdle

SpecWait == InitWait /\ [][NextTag]_vars

\* the same with the started wait running on: every sleep of wait_for_action ends
SpecWaitFair == SpecWait /\ WF_vars(SPoll)

\* the scheduler is started after merge_prs_into_dev has ended
SStart ==
    /\ pc \in {"done", "crashed"}
    /\ sched = Null
    /\ sched' = SchedStart(repo_ids, {"completed", "failure"})
    /\ poll' = Null
    /\ pc' = "scan"
    /\ ri' = 1
    /\ CycleStart
    /\ UNCHANGED <<repo_ids, dryrun, remote, clock, runs, before, fetchMax, fetched>>

\* repository Y before the first run: fresh, with an overlay branch, or with
\* an integration branch of an earlier release that includes Y#1
RemoteYFirst(bodies) ==
    { FreshRemote(bodies),
      [FreshRemote(bodies) EXCEPT !.branches[dev_custom] = OverlayBranch(1)],
      [FreshRemote(bodies) EXCEPT !.branches[dev_branch] = LegacyDev(1, <<PermalinkOf(parse_repo_id(RepoY), 1)>>)] }

\* merge_prs_into_dev over Y and X, then the scheduler over the same two
InitE2E ==
    /\ repo_ids = <<RepoY, RepoX>>
    /\ dryrun \in BOOLEAN
    /\ remote \in UNION { { (RepoY :> y) @@ (RepoX :> FreshRemote(b)) : y \in RemoteYFirst(b) } : b \in BodyKinds }
    /\ clock = 1
    /\ runs = 1
    /\ pc = "clone"
    /\ ri = 1
    /\ wc = Null
    /\ prs = NoPrs
    /\ decision = Null
    /\ previously_included_prs = <<>>
    /\ merged = <<>>
    /\ mi = 1
    /\ state = Null
    /\ error = Null
    /\ events = <<>>
    /\ before = remote
    /\ fetchMax = 1
    /\ fetched = <<>>
    /\ sched = Null
    /\ poll = Null

NextE2E == NextMerge \/ SStart \/ NextTag

SpecE2E == InitE2E /\ [][NextE2E]_vars

\* merge_prs_into_dev run repeatedly over one repository that starts
\* without an integration branch
InitCycles ==
    /\ repo_ids = <<RepoX>>
    /\ dryrun \in BOOLEAN
    /\ remote \in [{RepoX} -> { r \in RemoteChoices(parse_repo_id(RepoX)) : r.branches[dev_branch] = Null }]
    /\ clock = 1
    /\ runs = 1
    /\ pc = "clone"
    /\ ri = 1
    /\ wc = Null
    /\ prs = NoPrs
    /\ decision = Null
    /\ previously_included_prs = <<>>
    /\ merged = <<>>
    /\ mi = 1
    /\ state = Null
    /\ error = Null
    /\ events = <<>>
    /\ before = remote
    /\ fetchMax = 2
    /\ fetched = <<>>
    /\ sched = Null
    /\ poll = Null

NextCycles == NextMerge \/ MStartRun

SpecCycles == InitCycles /\ [][NextCycles]_vars

\* the scheduler is started again after a run that finished
SRestart ==
    /\ pc = "finished"
    /\ runs < MaxRuns
    /\ runs' = runs + 1
    /\ clock' = clock + 1
    /\ sched' = SchedStart(repo_ids, sched.raw)
    /\ poll' = Null
    /\ pc' = "scan"
    /\ ri' = 1
    /\ events' = <<>>
    /\ before' = remote
    /\ UNCHANGED <<repo_ids, dryrun, remote, error, wc, prs, decision, previously_included_prs,
                   merged, mi, state, fetchMax, fetched>>

\* the tags X may carry: none, one below the default branch, that one and a
\* pre-release tag on the integration branch's tip, or six tags of which the
\* highest was created first
TagsOfX ==
    LET below == Branch(0, <<>>)
        devTip == BuiltDev(1, StatusX, yaml_stringify(StatusX))
    IN  { <<>>,
          <<TagAt(<<1, 0, 0>>, FALSE, below)>>,
          <<TagAt(<<1, 0, 0>>, FALSE, below), TagAt(<<1, 0, 1>>, TRUE, devTip)>>,
          <<TagAt(<<2, 0, 0>>, FALSE, below)>> \o [i \in 1..TAG_TAIL |-> TagAt(<<1, 0, i - 1>>, FALSE, below)] }

\* the scheduler run twice over Y and X, whose integration branches carry
\* plain YAML states; Y's depends on X#1, which X's includes
InitRetag ==
    /\ repo_ids = <<RepoY, RepoX>>
    /\ dryrun \in BOOLEAN
    /\ remote \in { (RepoY :> [master |-> 1,
                               branches |-> [b \in BranchNames |->
                                               IF b = dev_branch THEN BuiltDev(1, StatusY, yaml_stringify(StatusY)) ELSE Null],
                               bodiesBelow |-> "", tags |-> ty, merged |-> <<>>, workflow |-> TRUE])
                    @@ (RepoX :> [master |-> 1,
                                  branches |-> [b \in BranchNames |->
                                                  IF b = dev_branch THEN BuiltDev(1, StatusX, yaml_stringify(StatusX)) ELSE Null],
                                  bodiesBelow |-> "", tags |-> tx, merged |-> <<>>, workflow |-> wf]) :
                    ty \in {<<>>, <<TagAt(<<1, 0, 0>>, FALSE, Branch(0, <<>>))>>},
                    tx \in TagsOfX,
                    wf \in BOOLEAN }
    /\ pc = "scan"
    /\ ri = 1
    /\ error = Null
    /\ events = <<>>
    /\ sched = SchedStart(repo_ids, {"completed", "failure"})
    /\ poll = Null
    /\ MergeIdle

NextRetag == NextTag \/ SRestart

SpecRetag == InitRetag /\ [][NextRetag]_vars

\* change n with a further line 'depends on:' whose text names no change
InvalidQL(repo_info, n) ==
    [QL(repo_info, n, 0) EXCEPT !.bodyText = Append(@, DepLine(BadText))]

\* the responses resolved: up to MaxFetch changes with different numbers, in
\* any order, each as it is or with the invalid line
ResolveInputs(repo_info) ==
    LET orders == { q \in Arrangements(1..NumPr, MaxFetch) : NoRepeat(q) }
    IN  UNION { { [i \in 1..Len(q) |-> IF bad[i] THEN InvalidQL(repo_info, q[i]) ELSE QL(repo_info, q[i], 0)] :
                    bad \in [1..Len(q) -> BOOLEAN] } : q \in orders }

\* the repository lucko/X: same name as X, another owner
RepoFork == <<"lucko", "X">>

\* changes per response in the responses that vary flags and labels
MaxFiltered == 2

\* the label sets a fetched change may carry
LabelChoices ==
    { {"Testing on Zeta"}, {"TESTING ON ZETA", "enhancement"}, {":construction: Testing on Zeta"},
      {}, {"enhancement"}, {"Testing"},
      {"Testing on Zeta", "Affects Balance"}, {"testing on zeta", "NOT READY FOR TESTING"},
      {"AFFECTS BALANCE"} }

\* change n with the given target, flags and labels
FlaggedQL(repo_info, n, v) ==
    [QL(repo_info, n, 0) EXCEPT !.baseIsDefault = v.baseIsDefault, !.isDraft = v.isDraft,
                                 !.locked = v.locked, !.labels = v.labels]

FlagChoices ==
    { [baseIsDefault |-> TRUE, isDraft |-> FALSE, locked |-> FALSE, labels |-> L] : L \in LabelChoices }
    \cup { [baseIsDefault |-> b, isDraft |-> d, locked |-> l, labels |-> {"Testing on Zeta"}] :
             b, d, l \in BOOLEAN }

\* the responses that vary flags and labels: up to MaxFiltered changes with
\* different numbers, in any order
FilterInputs(repo_info) ==
    LET orders == { q \in Arrangements(1..NumPr, MaxFiltered) : NoRepeat(q) }
    IN  UNION { { [i \in 1..Len(q) |-> FlaggedQL(repo_info, q[i], v[i])] :
                    v \in [1..Len(q) -> FlagChoices] } : q \in orders }

\* change n with a further line 'depends on: #k'
BackQL(repo_info, n, k) ==
    IF k = 0 THEN QL(repo_info, n, 0)
    ELSE [QL(repo_info, n, 0) EXCEPT !.bodyText = Append(@, DepLine(HashText("", k)))]

\* responses whose changes may depend on themselves or on each other in a
\* circle: up to MaxFetch changes in any order, each with or without a
\* further dependency on a change of the repository
CyclicInputs(repo_info) ==
    LET orders == { q \in Arrangements(1..NumPr, MaxFetch) : NoRepeat(q) /\ q # <<>> }
    IN  UNION { { [i \in 1..Len(q) |-> BackQL(repo_info, q[i], k[i])] :
                    k \in [1..Len(q) -> 0..NumPr] } : q \in orders }

\* merge_prs_into_dev over one repository whose open changes are such a response
InitCyclic ==
    /\ repo_ids = <<RepoX>>
    /\ dryrun \in BOOLEAN
    /\ remote \in [{RepoX} -> { r \in RemoteChoices(parse_repo_id(RepoX)) :
                                  /\ r.bodiesBelow = ""
                                  /\ r.branches[dev_branch] \in
                                        {Null, LegacyDev(1, <<PermalinkOf(parse_repo_id(RepoX), 1),
                                                              PermalinkOf(parse_repo_id(RepoX), 2)>>)} }]
    /\ clock = 1
    /\ runs = 1
    /\ pc = "clone"
    /\ ri = 1
    /\ wc = Null
    /\ prs = NoPrs
    /\ decision = Null
    /\ previously_included_prs = <<>>
    /\ merged = <<>>
    /\ mi = 1
    /\ state = Null
    /\ error = Null
    /\ events = <<>>
    /\ before = remote
    /\ fetchMax = MaxFetch
    /\ fetched \in CyclicInputs(parse_repo_id(RepoX))
    /\ sched = Null
    /\ poll = Null

NextCyclic == NextMerge

SpecCyclic == InitCyclic /\ [][NextCyclic]_vars

(***************************************************************************)
(* The naming of a tag (tag_dev.ts lines 254-263) over the texts           *)
(* `git tag -l` prints: the lines are parsed, sorted by                    *)
(* compare_tag_versions, and the last one is incremented.                  *)
(***************************************************************************)
\* the characters of the texts tried
TagChars == {"0", "9", "-", "p", "r", "e", "%"}
\* longest text over TagChars
MaxTagLen == 5
\* most numeric components of a version
MaxComponents == 3

ComponentChoices == {0, 9, 10}

RECURSIVE Dotted(_)
\* the numbers joined by "."
Dotted(values) ==
    IF Len(values) = 1 THEN ToDigits(values[1])
    ELSE Dotted(SubSeq(values, 1, Len(values) - 1)) \o <<".">> \o ToDigits(values[Len(values)])

\* versions d, d.d, d.d.d, each also with "-pre"
VersionTexts ==
    UNION { { Dotted(v) \o sfx : v \in [1..k -> ComponentChoices], sfx \in {<<>>, PRE} } : k \in 1..MaxComponents }

\* what get_latest_tags reads: one text of any characters, or two versions
\* (a text without digit among them)
TagLists ==
    { <<t>> : t \in UNION { [1..k -> TagChars] : k \in 1..MaxTagLen } \cup VersionTexts }
    \cup { <<a, b>> : a, b \in VersionTexts \cup {<<"v">>} }

RECURSIVE InsertTag(_, _)
InsertTag(sorted, x) ==
    IF sorted = <<>> THEN <<x>>
    ELSE IF compare_tag_versions(sorted[Len(sorted)], x) <= 0 THEN Append(sorted, x)
    ELSE Append(InsertTag(SubSeq(sorted, 1, Len(sorted) - 1), x), sorted[Len(sorted)])

RECURSIVE SortTags(_)
\* latestTags.sort(compare_tag_versions): stable
SortTags(list) ==
    IF list = <<>> THEN <<>>
    ELSE InsertTag(SortTags(SubSeq(list, 1, Len(list) - 1)), list[Len(list)])

\* lines 254-263 for one target whose tip has no tag
SName ==
    /\ pc = "name"
    /\ LET latestTags == SortTags([i \in 1..Len(sched.lines) |-> parse_tag(sched.lines[i])])
           latestTag == latestTags[Len(latestTags)]
       IN  sched' = [sched EXCEPT !.latestTags = latestTags,
                                  !.tag_name = increment_tag_text(latestTag, sched.dev)]
    /\ pc' = "named"
    /\ UNCHANGED <<repo_ids, dryrun, remote, ri, error, events, poll>>
    /\ UNCHANGED mergeVars

InitName ==
    /\ repo_ids = <<RepoX>>
    /\ dryrun = TRUE
    /\ remote = (RepoX :> FreshRemote(""))
    /\ MergeIdle
    /\ pc = "name"
    /\ ri = 1
    /\ error = Null
    /\ events = <<>>
    /\ sched \in { [lines |-> l, dev |-> d, latestTags |-> <<>>, tag_name |-> Null] :
                      l \in TagLists, d \in BOOLEAN }
    /\ poll = Null

NextName == SName

SpecName == InitName /\ [][NextName]_vars

\* the parsed tags increment_tag is called on: versions, and a text without
\* number
IncrementInputs == VersionTexts \cup {<<"v">>, <<"v">> \o PRE}

\* calls of increment_tag on one object
CALLS == 2

\* one call of increment_tag(tag, pre) on the object sched.tag: the object is
\* changed in place (lines 103-111) and its text returned (line 113)
SIncrement ==
    /\ pc = "increment"
    /\ LET k == Len(sched.results) + 1
           after == increment_tag_effect(sched.tag, sched.pre[k])
       IN  /\ sched' = [sched EXCEPT !.tag = after,
                                     !.results = Append(@, stringify_tag(after))]
           /\ pc' = IF k = CALLS THEN "incremented" ELSE "increment"
    /\ UNCHANGED <<repo_ids, dryrun, remote, ri, error, events, poll>>
    /\ UNCHANGED mergeVars

InitIncrement ==
    /\ repo_ids = <<RepoX>>
    /\ dryrun = TRUE
    /\ remote = (RepoX :> FreshRemote(""))
    /\ MergeIdle
    /\ pc = "increment"
    /\ ri = 1
    /\ error = Null
    /\ events = <<>>
    /\ sched \in { [given |-> parse_tag(t), tag |-> parse_tag(t), pre |-> p, results |-> <<>>] :
                      t \in IncrementInputs, p \in [1..CALLS -> BOOLEAN] }
    /\ poll = Null

NextIncrement == SIncrement

SpecIncrement == InitIncrement /\ [][NextIncrement]_vars

\* the responses with the one ready change #1 whose description is the
\* line 'depends on: <URL>', for every URL of a change other than #1 itself
\* (the cycles are the inputs of SpecCyclic), the number also written with a
\* leading zero
RefInputs(repo_info) ==
    { <<[QL(repo_info, 1, 0) EXCEPT !.bodyText = <<DepLine(PaddedUrlText(o, r, n, z))>>]>> :
        o \in OwnerNames, r \in RepoNames, n \in 2..NumPr, z \in {0, 1} }

\* get_prs applied to a response
RResolve ==
    /\ pc = "resolve"
    /\ LET info == get_prs(repo_id, fetched, <<>>)
       IN  /\ prs' = IF info = Null THEN NoPrs ELSE info
           /\ error' = IF info = Null THEN Thrown("Dependency Cycle Found") ELSE Null
    /\ pc' = "resolved"
    /\ UNCHANGED <<repo_ids, dryrun, remote, clock, runs, ri, wc, decision, previously_included_prs,
                   merged, mi, state, events, before, fetchMax, fetched, sched, poll>>

InitResolve ==
    /\ repo_ids \in {<<RepoX>>, <<RepoY>>, <<RepoFork>>}
    /\ dryrun = TRUE
    /\ remote = (RepoX :> FreshRemote("")) @@ (RepoY :> FreshRemote("")) @@ (RepoFork :> FreshRemote(""))
    /\ clock = 1
    /\ runs = 1
    /\ pc = "resolve"
    /\ ri = 1
    /\ wc = Null
    /\ prs = NoPrs
    /\ decision = Null
    /\ previously_included_prs = <<>>
    /\ merged = <<>>
    /\ mi = 1
    /\ state = Null
    /\ error = Null
    /\ events = <<>>
    /\ before = remote
    /\ fetchMax = MaxFetch
    /\ fetched \in ResolveInputs(parse_repo_id(repo_id)) \cup FilterInputs(parse_repo_id(repo_id))
                       \cup RefInputs(parse_repo_id(repo_id))
    /\ sched = Null
    /\ poll = Null

NextResolve == RResolve

SpecResolve == InitResolve /\ [][NextResolve]_vars

(***************************************************************************)
(* Properties of one cycle of merge_prs_into_dev (specification Spec).     *)
(***************************************************************************)
\* the changes whose merge was attempted in the current cycle, in order
Attempted ==
    LET es == SelectSeq(events, LAMBDA e : e.op \in {"merge", "merge_failed"})
    IN  [i \in 1..Len(es) |-> es[i].arg]

\* the operations of the current cycle, in order
Ops == [i \in 1..Len(events) |-> events[i].op]

\* entry i of a resolver result declares entry j as a dependency
DeclaresDep(list, i, j) ==
    \E k \in 1..Len(list[i].dependencies) : stringify_pr(list[i].dependencies[k]) = list[j].permalink

RECURSIVE DependsOn(_, _, _, _)
\* entry i depends on entry j through at most n declared dependencies
DependsOn(list, i, j, n) ==
    /\ n > 0
    /\ \/ DeclaresDep(list, i, j)
       \/ \E m \in 1..Len(list) : DeclaresDep(list, i, m) /\ DependsOn(list, m, j, n - 1)

\* C1: in the list get_prs returns, whenever a change depends on another
\* returned change, directly or through further returned changes, the
\* dependency stands earlier in the list; and merge_prs_into_dev attempts the
\* merges in the order of that list.
C1_DependencyOrder ==
    /\ \A i, j \in 1..Len(prs.prs) : DependsOn(prs.prs, i, j, Len(prs.prs)) => j < i
    /\ Attempted = SubSeq(Permalinks(prs.prs), 1, Len(Attempted))

\* three changes forming a chain were returned and all of them attempted
C1_Witness ==
    /\ Len(prs.prs) = 3
    /\ DependsOn(prs.prs, 3, 1, 3)
    /\ ~DeclaresDep(prs.prs, 3, 1)
    /\ Len(Attempted) = 3

\* what get_dev_branch_status read from the integration branch the cycle found
PriorStatus ==
    LET rem == before[repo_id]
    IN  get_dev_branch_status(get_commits(rem.branches[dev_branch], STATUS_SCAN, rem.bodiesBelow))

PriorIncluded == ArrayProp(PriorStatus, "Included PRs")

\* the resolver's entry with the given permalink
PrOf(permalink) == prs.prs[IndexOf(Permalinks(prs.prs), permalink)]

\* the failed merge recorded as event i is one of a not-revertable change
\* that the prior state lists as included
NonRevertableFailure(i) ==
    /\ events[i].op = "merge_failed"
    /\ NOT_REVERTABLE \in PrOf(events[i].arg).labels
    /\ InSeq(events[i].arg, PriorIncluded)

RevertableFailure(i) ==
    /\ events[i].op = "merge_failed"
    /\ ~(NOT_REVERTABLE \in PrOf(events[i].arg).labels /\ InSeq(events[i].arg, PriorIncluded))

\* C5: when the merge of a change fails, the change carries the
\* 'not revertable' label and its permalink is in the prior state's included
\* list, the error branch is published (unless dry-run), an error is raised,
\* no later change is merged, no state commit is made and the integration
\* branch is not pushed.
C5_Escalation ==
    \A i \in 1..Len(events) :
        NonRevertableFailure(i) =>
            /\ error # Null
            /\ ~dryrun => remote[repo_id].branches[dev_error] # Null
            /\ \A j \in (i + 1)..Len(events) : events[j].op \in {"abort_merge", "force_push"}
            /\ \A j \in 1..Len(events) : events[j] # Event("force_push", dev_branch)
            /\ state = Null
            /\ remote[repo_id].branches[dev_branch] = before[repo_id].branches[dev_branch]

\* the same without the publication of the error branch
C5_HaltsCycle ==
    \A i \in 1..Len(events) :
        NonRevertableFailure(i) =>
            /\ error # Null
            /\ \A j \in (i + 1)..Len(events) : events[j].op \in {"abort_merge", "force_push"}
            /\ \A j \in 1..Len(events) : events[j] # Event("force_push", dev_branch)
            /\ state = Null
            /\ remote[repo_id].branches[dev_branch] = before[repo_id].branches[dev_branch]

\* a not-revertable, previously included change failed to merge in a run
\* that is not a dry run
C5_Witness ==
    /\ ~dryrun
    /\ pc = "crashed"
    /\ \E i \in 1..Len(events) : NonRevertableFailure(i)

\* the index of the last failed merge of the cycle, 0 when none failed
LastFailure ==
    LET failed == { i \in 1..Len(events) : events[i].op \in {"merge_failed", "merge_custom_failed"} }
    IN  IF failed = {} THEN 0 ELSE CHOOSE i \in failed : \A j \in failed : j <= i

\* C6: when the merge of a change fails and the change is not labelled
\* 'not revertable' or was not in the prior included list, the merge is
\* aborted, the change is absent from the committed state's included list,
\* the failure does not end the cycle (the changes after it are attempted),
\* and a cycle that no other failure ends commits the state and publishes the
\* integration branch (unless dry-run).
C6_SkipAndContinue ==
    \A i \in 1..Len(events) :
        RevertableFailure(i) =>
            /\ i < Len(events) /\ events[i + 1] = Event("abort_merge", events[i].arg)
            /\ state # Null => ~InSeq(events[i].arg, state["Included PRs"])
            /\ error # Null => LastFailure > i
            /\ pc = "merge" => mi > IndexOf(Permalinks(prs.prs), events[i].arg)
            /\ (error = Null /\ pc # "merge") => Attempted = Permalinks(prs.prs)
            /\ (error = Null /\ pc \in {"finally", "done"}) =>
                /\ state # Null
                /\ InSeq("commit", Ops)
                /\ ~dryrun =>
                    /\ remote[repo_id].branches[dev_branch] # Null
                    /\ Head(remote[repo_id].branches[dev_branch].commits).body = StateMessage(state)

\* a change failed to merge without escalation, a later one was merged, and
\* the cycle ended with the state committed and published
C6_Witness ==
    /\ pc = "done"
    /\ ~dryrun
    /\ error = Null
    /\ \E i \in 1..Len(events) :
        /\ RevertableFailure(i)
        /\ \E j \in (i + 1)..Len(events) : events[j].op = "merge"
    /\ Len(state["Included PRs"]) = 2

\* C7: the state merge_prs_into_dev writes as the 'Dev Branch Status' commit
\* is what get_dev_branch_status returns from the recent commits of the
\* integration branch: a record with the same three lists.
C7_RoundTrip ==
    (state # Null /\ wc # Null) =>
        LET read == get_dev_branch_status(get_commits(wc.local[dev_branch], STATUS_SCAN, ""))
        IN  IsMap(read) /\ read.doc = state

\* a state was committed on the integration branch
C7_Witness ==
    /\ pc = "push"
    /\ state # Null
    /\ Len(state["Included PRs"]) > 0
    /\ Head(wc.local[dev_branch].commits).subject = STATUS_SUBJECT

\* C9: with P the prior state's included set and C the resolver's permalinks,
\* needs_update reports C \ P as added and P \ C as removed, and decides to
\* rebuild whenever either is non-empty.
C9_Differences ==
    LET P == Range(PriorIncluded)
        C == Range(Permalinks(prs.prs))
    IN  (decision # Null /\ Len(prs.prs) > 0 /\ IsMap(PriorStatus)) =>
            /\ Range(decision.added) = C \ P
            /\ Range(decision.removed) = P \ C
            /\ (C \ P # {} \/ P \ C # {}) => decision.result

\* the differences as the code computes them, and the rebuild they force
C9_AsCoded ==
    LET P == Range(PriorIncluded)
        C == Range(Permalinks(prs.prs))
    IN  (decision # Null /\ Len(prs.prs) > 0 /\ IsMap(PriorStatus)) =>
            /\ Range(decision.added) = P \ C
            /\ Range(decision.removed) = C \ P
            /\ (C \ P # {} \/ P \ C # {}) => decision.result

\* P = {#1, #2} and C = {#1, #3}
C9_Witness ==
    /\ decision # Null
    /\ IsMap(PriorStatus)
    /\ Range(PriorIncluded) = {PermalinkOf(parse_repo_id(repo_id), 1), PermalinkOf(parse_repo_id(repo_id), 2)}
    /\ Range(Permalinks(prs.prs)) = {PermalinkOf(parse_repo_id(repo_id), 1), PermalinkOf(parse_repo_id(repo_id), 3)}

WrittenTargets == { events[i].arg : i \in { j \in 1..Len(events) : events[j].op # "skip" } }

\* the commit a target's branch points at on the remote is tagged there
TipTagged(target) ==
    LET rem == remote[TargetRepo(target)]
        tip == IF target[2] = "dev" THEN rem.branches[dev_branch] ELSE Branch(rem.master, <<>>)
    IN  \E i \in 1..Len(rem.tags) : rem.tags[i].target = tip

\* C3: in the tagging loop, when a dependency D of the target T, other than
\* T's own stable variant, has a recorded pipeline run and wait_for_action
\* reports it as not succeeded, nothing is written for T (no update commit,
\* no push, no tag), the run ends with an error and no later target is tagged.
C3_FailedDependencyHalts ==
    (poll # Null /\ poll.phase = "tag" /\ poll.result = "false") =>
        LET T == sched.order[sched.ti]
        IN  /\ poll.target \in Range(dependenciesOf(sched.graph, T))
            /\ poll.target \in sched.workflows
            /\ poll.target # Target(TargetRepo(T), "master")
            /\ pc = "failed"
            /\ error = Thrown("Could not build dependency")
            /\ T \notin WrittenTargets
            /\ ~TipTagged(T)
            /\ \A k \in (sched.ti + 1)..Len(sched.order) :
                   sched.order[k] \notin WrittenTargets /\ sched.order[k] \notin sched.workflows

\* the wait for X:dev failed while Y:dev was being tagged, and the untagged
\* Z:master comes later in the order
C3_Witness ==
    /\ poll # Null /\ poll.phase = "tag" /\ poll.result = "false"
    /\ sched.order[sched.ti] = Target(RepoY, "dev")
    /\ poll.target = Target(RepoX, "dev")
    /\ sched.ti < Len(sched.order)
    /\ ~TipTagged(sched.order[Len(sched.order)])

\* C4: wait_for_action returns true exactly when the run is seen completed
\* at the first look or at one of at most six polls, before any look that
\* sees it failed; it returns false when failed is seen first or the six
\* polls pass.
C4_WaitVerdict ==
    (poll # Null /\ poll.result # "pending") =>
        /\ Len(poll.obs) <= POLLS + 1
        /\ poll.result = "true" <=>
               \E k \in 1..Len(poll.obs) :
                   poll.obs[k] = "completed" /\ \A j \in 1..(k - 1) : poll.obs[j] # "failed"

\* a run seen in progress at the first look and completed at the second poll
C4_Witness ==
    /\ poll # Null
    /\ poll.obs = <<"in-progess", "in-progess", "completed">>
    /\ poll.result # "pending"

(***************************************************************************)
(* Properties across programs and cycles (SpecE2E and SpecCycles).         *)
(***************************************************************************)
RECURSIVE StatusCommit(_)
\* the newest status commit among commits, Null when there is none
StatusCommit(commits) ==
    IF commits = <<>> THEN Null
    ELSE IF Head(commits).committer_name = TOOL_NAME /\ Head(commits).subject = STATUS_SUBJECT
    THEN Head(commits)
    ELSE StatusCommit(Tail(commits))

\* the integration branch of a hosted repository carries a state that
\* merge_prs_into_dev committed
HasCommittedState(rem) ==
    /\ rem.branches[dev_branch] # Null
    /\ StatusCommit(rem.branches[dev_branch].commits) # Null
    /\ StatusCommit(rem.branches[dev_branch].commits).body.enc = "base64"

\* that state, as it was handed to yaml.stringify
CommittedState(rem) == StatusCommit(rem.branches[dev_branch].commits).body.of.doc

\* Y's committed state lists as dependency a change X's committed state
\* lists as included, and the scheduler has built its graph
CrossDependencyCommitted ==
    /\ HasCommittedState(remote[RepoY])
    /\ HasCommittedState(remote[RepoX])
    /\ \E d \in Range(CommittedState(remote[RepoY])["Dependencies"]) :
           d \in Range(CommittedState(remote[RepoX])["Included PRs"])
    /\ sched # Null
    /\ sched.graph # EmptyGraph

\* C2: if the integration-branch state merge_prs_into_dev committed for Y
\* lists a cross-repository dependency on a change that the state committed
\* for the scanned repository X lists as included, the graph of the following
\* scheduler run has the edge Y:dev -> X:dev, and X:dev comes before Y:dev in
\* the tagging order.
C2_EndToEndEdge ==
    CrossDependencyCommitted =>
        /\ InSeq(<<Target(RepoY, "dev"), Target(RepoX, "dev")>>, sched.graph.edges)
        /\ sched.order # <<>> =>
               /\ InSeq(Target(RepoX, "dev"), sched.order)
               /\ IndexOf(sched.order, Target(RepoX, "dev")) < IndexOf(sched.order, Target(RepoY, "dev"))

\* both states are committed, the graph is built and Y:dev has been tagged
C2_Witness ==
    /\ CrossDependencyCommitted
    /\ pc = "finished"
    /\ \E i \in 1..Len(events) : events[i] = Event("push_tag", Target(RepoY, "dev"))

\* as coded: the scheduler reads each committed state as a text without
\* lists, so no edge between integration variants of different repositories
\* is ever built from states merge_prs_into_dev committed
C2_AsCoded ==
    CrossDependencyCommitted =>
        ~InSeq(<<Target(RepoY, "dev"), Target(RepoX, "dev")>>, sched.graph.edges)

\* the previous run published a state and the current cycle of the second
\* run has ended; the resolver's permalinks differ from the published
\* included set and the cycle is not the tear-down/skip case
ChangedSincePublished ==
    /\ runs = 2
    /\ pc \in {"done", "crashed"}
    /\ HasCommittedState(before[RepoX])
    /\ Range(Permalinks(prs.prs)) # Range(CommittedState(before[RepoX])["Included PRs"])
    /\ ~(Len(prs.prs) = 0 /\ before[RepoX].branches[dev_custom] = Null)

\* C8: if a cycle committed and published a state with included set S, and
\* in the next cycle the integration branch still exists, the resolver's
\* permalinks differ from S and the repository is not in the tear-down/skip
\* case, then needs_update returns true and the integration branch is rebuilt.
C8_NoFalseNegative ==
    ChangedSincePublished =>
        /\ decision # Null
        /\ decision.result
        /\ \E i \in 1..Len(events) : events[i].op = "reset"
        /\ \E i \in 1..Len(events) : events[i].op = "force_push"

\* such a second cycle has ended
C8_Witness ==
    /\ ChangedSincePublished
    /\ Len(prs.prs) > 0

\* as coded: with changes resolved, the decider answers true and reading
\* the previous included list throws before the branch is cut anew
C8_AsCoded ==
    (ChangedSincePublished /\ Len(prs.prs) > 0 /\ before[RepoX].bodiesBelow # "mapping") =>
        /\ decision # Null /\ decision.result
        /\ pc = "crashed"
        /\ \A i \in 1..Len(events) : events[i].op # "reset"

(***************************************************************************)
(* Properties of the scheduler's scan and graph (specification SpecTag).   *)
(***************************************************************************)
\* the scan has ended and pr_locations is filled
Located == sched # Null /\ pc \notin {"clone", "scan", "graph"} /\ sched.graph # EmptyGraph

\* the permalinks a table of the scan lists for a repository
Listed(table, repo) ==
    IF table[repo].set THEN { stringify_pr(table[repo].v[i]) : i \in 1..Len(table[repo].v) } ELSE {}

\* C11: a change listed both in the included state of a repository's
\* integration branch and among the changes merged into a stable branch
\* since its last tag is resolved by pr_locations to the integration
\* variant of the repository whose state includes it.
C11_IntegrationPrecedence ==
    Located =>
        \A r1 \in Range(repo_ids), r2 \in Range(repo_ids) :
            \A p \in Listed(sched.devPRs, r1) \cap Listed(sched.masterPRs, r2) :
                stringify_dest(sched.locations[p]) = Target(r1, "dev")

\* X#1 is included in X's integration branch and merged into X's default
\* branch since the last tag
C11_Witness ==
    /\ Located
    /\ InSeq(RepoX, repo_ids)
    /\ PermalinkOf(parse_repo_id(RepoX), 1) \in Listed(sched.devPRs, RepoX) \cap Listed(sched.masterPRs, RepoX)

\* as coded: the stable variant is written last and wins
C11_AsCoded ==
    Located =>
        \A r2 \in Range(repo_ids) :
            \A p \in Listed(sched.masterPRs, r2) : stringify_dest(sched.locations[p]) = Target(r2, "master")

\* the propagated dependencies of a scanned repository, as permalinks
Propagated(repo) == Listed(sched.masterDependencies, repo) \cup Listed(sched.devDependencies, repo)

\* a propagated dependency of a scanned repository has no release target
SomeUnresolved == \E repo \in Range(repo_ids) : \E p \in Propagated(repo) : p \notin DOMAIN sched.locations

\* the edge a located dependency of a variant of repo stands for is in the graph
EdgeBuilt(table, repo, branch) ==
    \A p \in Listed(table, repo) :
        (p \in DOMAIN sched.locations /\ hasNode(sched.graph, stringify_dest(sched.locations[p]))) =>
            InSeq(<<Target(repo, branch), stringify_dest(sched.locations[p])>>, sched.graph.edges)

\* C12: if a propagated dependency of a scanned repository (stable or
\* integration) has no release target in pr_locations, the scheduler raises
\* 'PR dependency check failed' after all dependencies were examined and
\* before the tagging loop: no target is tagged or pushed in that run.
C12_UnresolvedAborts ==
    (sched # Null /\ pc \notin {"scan", "graph"} /\ SomeUnresolved) =>
        /\ pc = "failed"
        /\ error = Thrown("PR dependency check failed")
        /\ events = <<>>
        /\ remote = before
        /\ \A repo \in Range(repo_ids) :
               EdgeBuilt(sched.masterDependencies, repo, "master") /\ EdgeBuilt(sched.devDependencies, repo, "dev")

\* X's default branch received X#3, which depends on Y#1, and Y's
\* integration branch depends on X#1; neither has a release target
C12_Witness ==
    /\ sched # Null /\ pc = "failed" /\ SomeUnresolved
    /\ repo_ids = <<RepoY, RepoX, RepoZ>>
    /\ PermalinkOf(parse_repo_id(RepoX), 1) \in Listed(sched.devDependencies, RepoY)
    /\ PermalinkOf(parse_repo_id(RepoY), 1) \in Listed(sched.masterDependencies, RepoX)

\* a propagated dependency refers to a change of a repository that is not scanned
OutsideDependency ==
    \E repo \in Range(repo_ids) :
        \E table \in {sched.masterDependencies, sched.devDependencies} :
            table[repo].set /\ \E i \in 1..Len(table[repo].v) :
                stringify_repo_id(table[repo].v[i].repo_id) \notin Range(repo_ids)

\* C13: a propagated cross-repository dependency whose change belongs to a
\* repository outside the scanned set is dropped and never aborts the run:
\* the remaining targets are still ordered and tagged.
C13_OutsideDropped ==
    (sched # Null /\ pc \notin {"scan", "graph"} /\ OutsideDependency) =>
        /\ error # Thrown("PR dependency check failed")
        /\ sched.order # <<>>

\* Y and Z are scanned, and Y's state depends on X#1
C13_Witness ==
    /\ sched # Null /\ pc \notin {"scan", "graph"} /\ OutsideDependency
    /\ repo_ids = <<RepoY, RepoZ>>

\* as coded: such a dependency has no location and fails the check
C13_AsCoded ==
    (sched # Null /\ pc \notin {"scan", "graph"} /\ OutsideDependency /\ repo_ids = <<RepoY, RepoZ>>) =>
        /\ pc = "failed"
        /\ error = Thrown("PR dependency check failed")

(***************************************************************************)
(* Properties of the tagging loop over two runs (specification SpecRetag). *)
(***************************************************************************)
\* the tip of a target's branch carried a tag on the remote when the run began
TaggedAtStart(target) ==
    LET rem == before[TargetRepo(target)]
        tip == IF target[2] = "dev" THEN rem.branches[dev_branch] ELSE Branch(rem.master, <<>>)
    IN  \E i \in 1..Len(rem.tags) : rem.tags[i].target = tip

\* number of create_tag operations of the run for a target
TimesTagged(target) == Cardinality({ i \in 1..Len(events) : events[i] = Event("create_tag", target) })

Tagging == sched # Null /\ pc = "write"

\* C15: the tag created for a target is increment(G, pre), where G is the
\* greatest, by component-wise numeric comparison, of all tags the
\* repository has and pre is true exactly for the integration variant; so
\* the new tag's numbers are strictly greater than those of every existing
\* tag of the repository.
C15_NextVersion ==
    Tagging =>
        LET T == sched.order[sched.ti]
            tags == sched.clones[TargetRepo(T)].tags
        IN  /\ sched.tag_name.pre = (T[2] = "dev")
            /\ \E g \in 1..Len(tags) :
                   /\ \A t \in 1..Len(tags) : compare_tag_versions(tags[t].tag, tags[g].tag) <= 0
                   /\ sched.tag_name = increment_tag(tags[g].tag, T[2] = "dev")
            /\ \A t \in 1..Len(tags) : compare_tag_versions(tags[t].tag, sched.tag_name) < 0

\* a target of X is tagged while X has more than TAG_TAIL tags
C15_Witness ==
    /\ Tagging
    /\ TargetRepo(sched.order[sched.ti]) = RepoX
    /\ Len(sched.clones[RepoX].tags) > TAG_TAIL

\* as coded: the new tag is above the TAG_TAIL tags created last
C15_AsCoded ==
    Tagging =>
        LET T == sched.order[sched.ti]
            tags == sched.clones[TargetRepo(T)].tags
        IN  /\ sched.tag_name.pre = (T[2] = "dev")
            /\ \A t \in 1..Len(tags) :
                   t > Len(tags) - TAG_TAIL => compare_tag_versions(tags[t].tag, sched.tag_name) < 0

\* the direct dependencies of a target other than its own stable variant
DirectDependencies(T) ==
    { D \in Range(sched.graph.nodes) :
        InSeq(<<T, D>>, sched.graph.edges) /\ D # Target(TargetRepo(T), "master") }

\* the tag a tagging loop's clone of D's repository has at the tip of D's branch
TagOfTip(D, tag) ==
    /\ tag # Null
    /\ tag.pre = (D[2] = "dev")
    /\ LET rem == remote[TargetRepo(D)]
           tip == IF D[2] = "dev" THEN rem.branches[dev_branch] ELSE Branch(rem.master, <<>>)
       IN  dryrun \/ \E i \in 1..Len(rem.tags) : rem.tags[i].tag = tag /\ rem.tags[i].target = tip

\* C16: when target T is tagged, for every direct dependency D of T other
\* than T's own stable variant the version override passed to update_repo
\* for D's repository is the tag of D's variant (a pre-release tag for an
\* integration dependency, a stable tag for a stable one), also when D was
\* skipped earlier in the run as already tagged.
C16_OverridesPinned ==
    Tagging =>
        \A D \in DirectDependencies(sched.order[sched.ti]) :
            LET key == parse_repo_id(TargetRepo(D)).repo
            IN  /\ key \in DOMAIN sched.tag_overrides
                /\ TagOfTip(D, sched.tag_overrides[key])

\* Y's integration variant is about to be written after X's was skipped as
\* already tagged
C16_Witness ==
    /\ Tagging
    /\ sched.order[sched.ti] = Target(RepoY, "dev")
    /\ Target(RepoX, "dev") \in DirectDependencies(Target(RepoY, "dev"))
    /\ \E i \in 1..Len(events) : events[i] = Event("skip", Target(RepoX, "dev"))

\* as coded: the override is the tag of a dependency tagged in this run
C16_AsCoded ==
    Tagging =>
        \A D \in DirectDependencies(sched.order[sched.ti]) :
            (\E i \in 1..Len(events) : events[i] = Event("create_tag", D)) =>
                TagOfTip(D, sched.tag_overrides[parse_repo_id(TargetRepo(D)).repo])

(***************************************************************************)
(* Dry runs and escalated failures (specifications SpecE2E and Spec).      *)
(***************************************************************************)
\* the operations that write to the remote destructively
REMOTE_WRITES == {"force_push", "delete_dev", "push_tag"}

\* the local integration branch carries the state commit
StateCommitted == wc # Null /\ wc.local[dev_branch] # Null /\ StatusCommit(wc.local[dev_branch].commits) # Null

\* C17: in dry-run mode neither merge_prs_into_dev nor the scheduler writes
\* to the remote destructively (no force-push of the integration, error or
\* base branch, no remote branch deletion, no tag push), while the other
\* steps still run: reset, merges and state commit, and local tag creation.
C17_DryRun ==
    dryrun =>
        /\ remote = before
        /\ \A i \in 1..Len(events) : events[i].op \notin REMOTE_WRITES
        /\ pc = "push" =>
               /\ \E i \in 1..Len(events) : events[i].op = "reset"
               /\ \E i \in 1..Len(events) : events[i].op = "commit"
               /\ \A i \in 1..Len(merged) : \E j \in 1..Len(events) : events[j] = Event("merge", merged[i].permalink)
               /\ StateCommitted
        /\ (sched # Null /\ pc = "write") => ENABLED SWrite
        /\ sched # Null =>
               \A i \in 1..Len(events) :
                   events[i].op = "create_tag" =>
                       LET w == sched.clones[TargetRepo(events[i].arg)]
                       IN  w # Null /\ get_tag_for_ref(w, TargetBranch(events[i].arg))

\* a dry run in which the merge program committed a state and the scheduler
\* created a tag for Y's integration variant
C17_Witness ==
    /\ dryrun
    /\ sched # Null
    /\ \E i \in 1..Len(events) : events[i] = Event("create_tag", Target(RepoY, "dev"))

\* the program has ended with an escalated failure of the repository in work
EscalatedFailure ==
    /\ pc = "crashed"
    /\ \E i \in 1..Len(events) : events[i].op = "merge_custom_failed" \/ NonRevertableFailure(i)

\* C18: an escalated failure (a not-revertable change lost, or a failed
\* overlay merge) aborts only the cycle of the repository in work:
\* merge_prs_into_dev is still run for every repository later in the list.
C18_LaterRepositoriesRun == EscalatedFailure => ri = Len(repo_ids)

\* the failure escalated in Y, the first of two repositories
C18_Witness == EscalatedFailure /\ repo_id = RepoY /\ Len(repo_ids) = 2

\* as coded: the error leaves the loop over the repositories and the
\* program has ended
C18_AsCoded == EscalatedFailure => ~ENABLED NextMerge

\* the overlay merge of the cycle failed and the cycle has ended
OverlayFailed ==
    /\ pc \in {"finally", "crashed"}
    /\ \E i \in 1..Len(events) : events[i].op = "merge_custom_failed"

\* C19: when the overlay branch exists and merging it into the rebuilt
\* integration branch fails, the cycle escalates whatever the labels: the
\* error branch is published (unless dry-run), an error is raised, and
\* neither the state commit nor the push of the integration branch happens.
C19_OverlayEscalates ==
    OverlayFailed =>
        /\ error # Null
        /\ ~dryrun => remote[repo_id].branches[dev_error] # Null
        /\ state = Null
        /\ \A i \in 1..Len(events) : events[i].op # "commit"
        /\ remote[repo_id].branches[dev_branch] = before[repo_id].branches[dev_branch]

\* the overlay merge failed in a run that is not a dry run
C19_Witness == OverlayFailed /\ ~dryrun /\ pc = "crashed"

\* the same without the publication of the error branch
C19_AsCoded ==
    OverlayFailed =>
        /\ error # Null
        /\ state = Null
        /\ \A i \in 1..Len(events) : events[i].op # "commit"
        /\ remote[repo_id].branches[dev_branch] = before[repo_id].branches[dev_branch]

(***************************************************************************)
(* Properties of get_prs as a function (specification SpecResolve).        *)
(***************************************************************************)
\* a 'depends on:' line of the change does not resolve to a change identifier
HasInvalidDependency(ql) ==
    \E k \in 1..Len(ql.bodyText) :
        ql.bodyText[k].dep /\ ResolveDep(parse_repo_id(repo_id), ql.bodyText[k].ref) = Null

\* C20: a change whose description has a 'depends on:' line that does not
\* parse to a valid change identifier is absent from get_prs's result, and
\* the result (changes, their order and the cross-repository dependency
\* list) is what it would be had that change not been fetched at all.
C20_InvalidDiscarded ==
    pc = "resolved" =>
        LET others == SelectSeq(fetched, LAMBDA ql : ~HasInvalidDependency(ql))
            without == get_prs(repo_id, others, <<>>)
        IN  /\ \A i \in 1..Len(fetched) :
                   HasInvalidDependency(fetched[i]) => ~InSeq(fetched[i].permalink, Permalinks(prs.prs))
            /\ without # Null
            /\ prs = without
            /\ error = Null

\* #2 with the invalid line was fetched between #3 and #1, which were resolved
C20_Witness ==
    /\ pc = "resolved"
    /\ Len(fetched) = 3
    /\ fetched[2].number = 2 /\ HasInvalidDependency(fetched[2])
    /\ Len(prs.prs) = 2
    /\ prs.dependencies # <<>>

\* label names that differ only in the case of their letters
Spellings ==
    { {"testing on zeta", "Testing on Zeta", "TESTING ON ZETA"},
      {":construction: testing on zeta", ":construction: Testing on Zeta"},
      {"affects balance", "Affects Balance", "AFFECTS BALANCE"},
      {"not ready for testing", "NOT READY FOR TESTING"} }

EqualIgnoringCase(a, b) == a = b \/ \E g \in Spellings : a \in g /\ b \in g

CarriesOneOf(ql, names) == \E l \in ql.labels, n \in names : EqualIgnoringCase(l, n)

\* the fetched change is open for the default branch, carries no blocking
\* label and carries a required label
Selected(ql) ==
    /\ ql.baseIsDefault /\ ~ql.isDraft /\ ~ql.locked
    /\ ~CarriesOneOf(ql, BLOCKER_LABELS)
    /\ CarriesOneOf(ql, REQUIRED_LABELS)

ReturnedNumbers == { prs.prs[i].number : i \in 1..Len(prs.prs) }

\* C21 as stated: without spliced third-party changes, get_prs returns
\* exactly the fetched changes that target the default branch, are neither
\* draft nor locked, carry no blocking label and carry at least one required
\* label, labels compared without regard to case.
C21_ExactlySelected ==
    (pc = "resolved" /\ error = Null) =>
        /\ ReturnedNumbers = { fetched[i].number : i \in { k \in 1..Len(fetched) : Selected(fetched[k]) } }
        /\ Cardinality(ReturnedNumbers) = Len(prs.prs)

\* C21 as amended: get_prs returns exactly those of the changes above whose
\* 'depends on:' lines all name a change.
C21_SelectedAndLoaded ==
    (pc = "resolved" /\ error = Null) =>
        /\ ReturnedNumbers = { fetched[i].number :
                                  i \in { k \in 1..Len(fetched) :
                                             Selected(fetched[k]) /\ ~HasInvalidDependency(fetched[k]) } }
        /\ Cardinality(ReturnedNumbers) = Len(prs.prs)

\* a change labelled in capitals was returned and the other change of the
\* response, labelled as blocked in capitals, was not
C21_Witness ==
    /\ pc = "resolved"
    /\ Len(fetched) = 2
    /\ fetched[1].labels = {"AFFECTS BALANCE"}
    /\ fetched[2].labels = {"TESTING ON ZETA", "enhancement"}
    /\ Len(prs.prs) = 1
    /\ prs.prs[1].number = fetched[2].number

\* number of places of a list holding x
Count(list, x) == Cardinality({ i \in 1..Len(list) : list[i] = x })

\* the dependencies the returned changes declare
DeclaredBy(list) == UNION { Range(list[i].dependencies) : i \in 1..Len(list) }

\* how often the returned changes declare a dependency on d
TimesDeclared(list, d) ==
    Cardinality({ <<i, k>> \in (1..Len(list)) \X (1..NumPr) :
                    k <= Len(list[i].dependencies) /\ list[i].dependencies[k] = d })

\* the dependencies list is the declared dependencies owned by a repository
\* other than the current one, each as often as it is declared
ListsTheForeign ==
    LET R == parse_repo_id(repo_id)
    IN  /\ \A d \in DeclaredBy(prs.prs) :
               Count(prs.dependencies, d) = IF d.repo_id # R THEN TimesDeclared(prs.prs, d) ELSE 0
        /\ Range(prs.dependencies) \subseteq DeclaredBy(prs.prs)

\* C22: the dependencies list get_prs returns for repository R holds exactly
\* the declared dependencies of the surviving changes whose owning
\* repository (owner and name) differs from R; a dependency on a change of
\* R itself is never listed, whatever R's owner is.
C22_CrossRepoDependencies ==
    (pc = "resolved" /\ error = Null) => ListsTheForeign

\* the same for the repositories of the organisation the code names
C22_AsCoded ==
    (pc = "resolved" /\ error = Null /\ parse_repo_id(repo_id).owner = "GTNewHorizons") => ListsTheForeign

\* lucko/X#2, which depends on lucko/X#1, was returned for lucko/X
C22_Witness ==
    /\ pc = "resolved"
    /\ repo_id = RepoFork
    /\ \E i \in 1..Len(prs.prs) :
           /\ prs.prs[i].number = 2
           /\ prs.prs[i].dependencies = <<[repo_id |-> parse_repo_id(RepoFork), pr |-> 1]>>

(***************************************************************************)
(* Properties of a cycle over a fixed response (specification SpecCyclic). *)
(***************************************************************************)
\* the fetched changes that are mergeable
Mergeable == { i \in 1..Len(fetched) : Selected(fetched[i]) /\ ~HasInvalidDependency(fetched[i]) }

\* the description of fetched change i has a line 'depends on:' naming fetched change j
Declares(i, j) ==
    \E k \in 1..Len(fetched[i].bodyText) :
        /\ fetched[i].bodyText[k].dep
        /\ stringify_pr(ResolveDep(parse_repo_id(repo_id), fetched[i].bodyText[k].ref)) = fetched[j].permalink

RECURSIVE Leads(_, _, _)
\* declared dependencies lead from change i to change j in at most n steps
Leads(i, j, n) ==
    \/ Declares(i, j)
    \/ n > 1 /\ \E m \in Mergeable : Declares(i, m) /\ Leads(m, j, n - 1)

DeclaredCycle == \E i \in Mergeable : Leads(i, i, Len(fetched))

\* C23: when the declared dependencies among the mergeable changes of a
\* repository contain a cycle (a change depending on itself included),
\* get_prs raises an error instead of returning an order, and
\* merge_prs_into_dev makes no reset, merge, state commit or push for that
\* repository.
C23_CycleRaises ==
    (pc # "clone" /\ DeclaredCycle) =>
        /\ error # Null
        /\ prs = NoPrs
        /\ events = <<>>
        /\ state = Null
        /\ remote = before

\* #3, #1 and #2 were fetched, none depends on itself, and the cycle ended
\* with the error
C23_Witness ==
    /\ pc = "crashed"
    /\ Len(fetched) = 3
    /\ DeclaredCycle
    /\ \A i \in 1..Len(fetched) : ~Declares(i, i)
    /\ error = Thrown("Dependency Cycle Found")

(***************************************************************************)
(* Properties of the committed state (Spec and SpecCycles).                *)
(***************************************************************************)
\* the changes merged in the current cycle, in merge order
MergedInOrder ==
    LET es == SelectSeq(events, LAMBDA e : e.op = "merge")
    IN  [i \in 1..Len(es) |-> es[i].arg]

\* the record a status commit was written from, whatever its encoding
WrittenDoc(body) == IF body.enc = "base64" THEN body.of.doc ELSE body.doc

\* the included list of the state on the integration branch the cycle
\* found, empty when there was no branch or no state
PriorStateIncluded ==
    LET dev == before[repo_id].branches[dev_branch]
    IN  IF dev = Null \/ StatusCommit(dev.commits) = Null THEN <<>>
        ELSE WrittenDoc(StatusCommit(dev.commits).body)["Included PRs"]

\* C24: the state committed by merge_prs_into_dev has Included = the
\* permalinks of the changes whose merge succeeded, in merge order, Removed =
\* the prior state's included permalinks minus Included, Dependencies = the
\* resolver's cross-repo dependencies; so Included and Removed are disjoint,
\* Removed is within the prior included list, and when every merge succeeds
\* Included is the resolver's ordered list.
C24_CommittedState ==
    state # Null =>
        /\ state["Included PRs"] = MergedInOrder
        /\ state["Removed PRs"] = Difference(PriorStateIncluded, MergedInOrder)
        /\ state["Dependencies"] = [i \in 1..Len(prs.dependencies) |-> stringify_pr(prs.dependencies[i])]
        /\ Range(state["Included PRs"]) \cap Range(state["Removed PRs"]) = {}
        /\ Range(state["Removed PRs"]) \subseteq Range(PriorStateIncluded)
        /\ (\A i \in 1..Len(events) : events[i].op # "merge_failed")
               => state["Included PRs"] = Permalinks(prs.prs)

\* the same with the prior included list as the cycle read it
C24_AsCoded ==
    state # Null =>
        /\ state["Included PRs"] = MergedInOrder
        /\ state["Removed PRs"] = Difference(previously_included_prs, MergedInOrder)
        /\ state["Dependencies"] = [i \in 1..Len(prs.dependencies) |-> stringify_pr(prs.dependencies[i])]
        /\ Range(state["Included PRs"]) \cap Range(state["Removed PRs"]) = {}
        /\ Range(state["Removed PRs"]) \subseteq Range(PriorStateIncluded)
        /\ (\A i \in 1..Len(events) : events[i].op # "merge_failed")
               => state["Included PRs"] = Permalinks(prs.prs)

\* a state was committed over a branch whose state included a change that
\* was not merged this time
C24_Witness ==
    /\ state # Null
    /\ \E x \in Range(PriorStateIncluded) : x \notin Range(MergedInOrder)
    /\ Len(MergedInOrder) = 2

(***************************************************************************)
(* Properties of the tag functions (specification SpecName).               *)
(***************************************************************************)
HasDigit(text) == \E i \in 1..Len(text) : isDigit(text[i])

\* the text was the only line and its successor was computed
Named(text) == pc = "named" /\ sched.lines = <<text>>

RECURSIVE Canonical(_)
\* the text with every number written without leading zeros
Canonical(text) ==
    IF Len(text) < 2 THEN text
    ELSE LET front == Canonical(SubSeq(text, 1, Len(text) - 1))
             c == text[Len(text)]
         IN  IF isDigit(c) /\ front[Len(front)] = "0" /\ (Len(front) = 1 \/ ~isDigit(front[Len(front) - 1]))
             THEN Append(SubSeq(front, 1, Len(front) - 1), c)
             ELSE Append(front, c)

\* the successor the claim describes, for a text with a digit: the last run
\* of digits is raised by one, a trailing "-pre" is removed and "-pre" is
\* added for a pre-release; the rest stays
Successor(text, pre) ==
    LET body == IF endsWith(text, PRE) THEN SubSeq(text, 1, Len(text) - Len(PRE)) ELSE text
        to == CHOOSE i \in 1..Len(body) : isDigit(body[i]) /\ \A j \in (i + 1)..Len(body) : ~isDigit(body[j])
        from == CHOOSE i \in 1..to :
                    /\ \A j \in i..to : isDigit(body[j])
                    /\ (i = 1 \/ ~isDigit(body[i - 1]))
    IN  Canonical(SubSeq(body, 1, from - 1)) \o ToDigits(parseInt(SubSeq(body, from, to)) + 1)
        \o SubSeq(body, to + 1, Len(body)) \o (IF pre THEN PRE ELSE <<>>)

\* C25: increment_tag(parse_tag(t), pre) returns t with its last numeric
\* component increased by exactly 1, every earlier numeric component and
\* every other literal unchanged, and ending in "-pre" exactly when pre is
\* true (a trailing "-pre" of t is removed first).
C25_Increment ==
    (pc = "named" /\ Len(sched.lines) = 1 /\ HasDigit(sched.lines[1])) =>
        sched.tag_name = [threw |-> FALSE, text |-> Successor(sched.lines[1], sched.dev)]

\* the same for the texts without "%"
C25_AsCoded ==
    (pc = "named" /\ Len(sched.lines) = 1 /\ HasDigit(sched.lines[1])
        /\ \A i \in 1..Len(sched.lines[1]) : sched.lines[1][i] # "%") =>
            sched.tag_name = [threw |-> FALSE, text |-> Successor(sched.lines[1], sched.dev)]

\* the three cases the claim names
C25_Examples ==
    /\ increment_tag_text(parse_tag(<<"2", ".", "3", ".", "1">>), FALSE).text = <<"2", ".", "3", ".", "2">>
    /\ increment_tag_text(parse_tag(<<"2", ".", "3", ".", "1">>), TRUE).text = <<"2", ".", "3", ".", "2">> \o PRE
    /\ increment_tag_text(parse_tag(<<"2", ".", "3", ".", "2">> \o PRE), TRUE).text = <<"2", ".", "3", ".", "3">> \o PRE

\* the text %9 was incremented
C25_Witness == Named(<<"%", "9">>)

HasPercent(text) == \E i \in 1..Len(text) : text[i] = "%"

\* parse and stringify reproduce the text, and parsing the result again
\* gives the same ParsedTag
RoundTrips(text) ==
    LET parsed == parse_tag(text)
        shown == stringify_tag(parsed)
    IN  /\ ~shown.threw
        /\ shown.text = text
        /\ parse_tag(shown.text) = parsed

\* C26: for every tag t returned by increment_tag,
\* parse_tag(stringify_tag(parse_tag(t))) = parse_tag(t) and
\* stringify_tag(parse_tag(t)) = t.
C26_RoundTrip ==
    (pc = "named" /\ ~sched.tag_name.threw) => RoundTrips(sched.tag_name.text)

\* the same for the tags made from texts without "%"
C26_AsCoded ==
    (pc = "named" /\ ~sched.tag_name.threw /\ \A i \in 1..Len(sched.lines) : ~HasPercent(sched.lines[i])) =>
        RoundTrips(sched.tag_name.text)

\* increment_tag returned the text %d
C26_Witness ==
    /\ pc = "named"
    /\ sched.tag_name = [threw |-> FALSE, text |-> <<"%", "d">>]

\* C28: parse_tag fails (reports an error rather than returning a
\* ParsedTag) for every text without a digit.
C28_NoDigitFails ==
    pc = "named" =>
        \A i \in 1..Len(sched.lines) :
            ~HasDigit(sched.lines[i]) => ~InSeq(parse_tag(sched.lines[i]), sched.latestTags)

\* what the code does with such a text: the ParsedTag has the text as its
\* format and no values, and increment_tag returns the text without a
\* trailing "-pre", or with one for a pre-release
C28_AsCoded ==
    (pc = "named" /\ Len(sched.lines) = 1 /\ ~HasDigit(sched.lines[1])) =>
        LET text == sched.lines[1]
            body == IF endsWith(text, PRE) THEN SubSeq(text, 1, Len(text) - Len(PRE)) ELSE text
        IN  /\ sched.latestTags = <<[format |-> text, values |-> <<>>]>>
            /\ ~HasPercent(text) => sched.tag_name = [threw |-> FALSE,
                                                       text |-> body \o (IF sched.dev THEN PRE ELSE <<>>)]

\* the text -pre was parsed and incremented
C28_Witness ==
    /\ Named(PRE)
    /\ sched.latestTags = <<[format |-> PRE, values |-> <<>>]>>

\* lexicographic comparison of two lists of numbers: the first place where
\* they differ decides, a proper prefix is lower
Lexicographic(u, v) ==
    LET common == IF Len(u) < Len(v) THEN Len(u) ELSE Len(v)
        differ == { k \in 1..common : u[k] # v[k] }
    IN  IF differ # {}
        THEN LET k == CHOOSE x \in differ : \A y \in differ : x <= y
             IN  IF u[k] < v[k] THEN -1 ELSE 1
        ELSE IF Len(u) < Len(v) THEN -1
        ELSE IF Len(u) > Len(v) THEN 1
        ELSE 0

\* C27: compare_tag_versions(a, b) is the lexicographic comparison of the
\* two numeric vectors: the first differing component decides, a proper
\* prefix sorts lower, equal vectors compare 0 also when only one tag ends
\* in "-pre"; and compare(a, b) = -compare(b, a).
C27_Comparison ==
    (pc = "named" /\ Len(sched.lines) = 2) =>
        LET a == parse_tag(sched.lines[1])
            b == parse_tag(sched.lines[2])
            c == compare_tag_versions(a, b)
        IN  /\ c = Lexicographic(a.values, b.values)
            /\ c = 0 - compare_tag_versions(b, a)
            /\ sched.latestTags = IF c > 0 THEN <<b, a>> ELSE <<a, b>>

\* 9.10-pre and 9 were sorted: 9 is a proper prefix and came first
C27_Witness ==
    /\ pc = "named"
    /\ sched.lines = <<Dotted(<<9, 10>>) \o PRE, Dotted(<<9>>)>>
    /\ sched.latestTags = <<parse_tag(Dotted(<<9>>)), parse_tag(Dotted(<<9, 10>>) \o PRE)>>

(***************************************************************************)
(* Properties of parse_pr and stringify_pr (specification SpecResolve).    *)
(***************************************************************************)
\* the response is one change whose only line is 'depends on:' with a URL
ReferenceResolved ==
    /\ pc = "resolved"
    /\ error = Null
    /\ Len(fetched) = 1
    /\ Len(fetched[1].bodyText) = 1
    /\ fetched[1].bodyText[1].dep
    /\ fetched[1].bodyText[1].ref.form = "url"

\* the change identifiers: any owner, repository and number
ChangeIds == { [repo_id |-> [owner |-> o, repo |-> r], pr |-> n] : o \in OwnerNames, r \in RepoNames, n \in 1..NumPr }

\* C29: parse_pr is the exact inverse of stringify_pr: parse_pr(stringify_pr(id))
\* = id for every change identifier, and stringify_pr(parse_pr(s)) = s for
\* every text s that parse_pr accepts in URL form.
C29_Inverse ==
    ReferenceResolved =>
        LET s == fetched[1].bodyText[1].ref
        IN  /\ \A id \in ChangeIds :
                   s = stringify_pr(id) => /\ Len(prs.prs) = 1
                                           /\ prs.prs[1].dependencies = <<id>>
            /\ Len(prs.prs) = 1 => stringify_pr(prs.prs[1].dependencies[1]) = s

\* the same for the names of letters, digits, "_" and "-" and the numbers
\* written without leading zeros
C29_AsCoded ==
    ReferenceResolved =>
        LET s == fetched[1].bodyText[1].ref
        IN  /\ \A id \in ChangeIds :
                   (s = stringify_pr(id) /\ id.repo_id.repo \in WordDashNames)
                       => /\ Len(prs.prs) = 1
                          /\ prs.prs[1].dependencies = <<id>>
            /\ (Len(prs.prs) = 1 /\ s = UrlText(s.owner, s.repo, s.pr))
                   => stringify_pr(prs.prs[1].dependencies[1]) = s

\* the line named change 2 of lucko/Dot.Repo by its URL
C29_Witness ==
    /\ ReferenceResolved
    /\ fetched[1].bodyText[1].ref = stringify_pr([repo_id |-> [owner |-> "lucko", repo |-> "Dot.Repo"], pr |-> 2])

(***************************************************************************)
(* Properties of push_tag in the scheduler (specification SpecWait).       *)
(***************************************************************************)
\* push_tag looked for the pipeline run of the target's tag and returned
\* without one
GaveUp(target) ==
    /\ sched # Null
    /\ ~dryrun
    /\ remote[TargetRepo(target)].workflow
    /\ InSeq(Event("push_tag", target), events)
    /\ ~(pc = "lookup" /\ sched.order[sched.ti] = target)
    /\ target \notin sched.workflows

\* the targets tagged so far whose dependencies include the given one
DependentsWritten(target) ==
    { d \in WrittenTargets : target \in Range(dependenciesOf(sched.graph, d)) }

\* C30: push_tag makes at most 3 pipeline-run lookups and then returns; when
\* none finds a matching run it returns null, which the scheduler treats as
\* 'no trackable pipeline': the target counts as tagged, the run does not
\* fail, and a dependent of that target is tagged without waiting.
C30_NoTrackablePipeline ==
    /\ pc = "lookup" => sched.tries <= 3
    /\ (sched # Null /\ pc \notin {"scan", "graph"}) =>
           \A k \in 1..Len(sched.order) :
               LET target == sched.order[k]
               IN  GaveUp(target) =>
                       /\ k < sched.ti
                       /\ TipTagged(target)
                       /\ poll # Null => poll.target # target
                       /\ error # Null => (poll # Null /\ poll.result = "false"
                                              /\ poll.target \in sched.workflows)
                       /\ (pc = "deps" /\ sched.di > 1 /\ sched.deps[sched.di - 1] = target)
                              => \/ target \in sched.passed_workflows
                                 \/ target = Target(TargetRepo(sched.order[sched.ti]), "master")
                       /\ pc = "finished" =>
                              \A j \in (k + 1)..Len(sched.order) :
                                  target \in Range(dependenciesOf(sched.graph, sched.order[j]))
                                      => TipTagged(sched.order[j])

\* the run ended without error: no lookup found a run for the tag of X:dev,
\* and Y:dev, which depends on it, was tagged with no pipeline waited for
C30_Witness ==
    /\ pc = "finished"
    /\ error = Null
    /\ GaveUp(Target(RepoX, "dev"))
    /\ Target(RepoY, "dev") \in DependentsWritten(Target(RepoX, "dev"))
    /\ poll = Null

(***************************************************************************)
(* Properties of the final wait loop (specification SpecWait).             *)
(***************************************************************************)
\* the target of the final loop has a recorded pipeline run that no wait of
\* the tagging loop saw succeeded
AwaitsRun ==
    /\ pc = "final"
    /\ sched.order[sched.fi] \in sched.workflows \ sched.passed_workflows

\* C31: after the tagging loop the scheduler waits on every recorded
\* pipeline run not already observed succeeded during the run; the run ends
\* without error only if every recorded run was observed succeeded, and it
\* ends with an error as soon as a wait reports failed or timed out.
C31_FinalWait ==
    [][/\ (pc # "final" /\ pc' = "final") => sched'.fi = 1
       /\ AwaitsRun =>
              /\ poll'.phase = "final"
              /\ poll'.target = sched.order[sched.fi]
              /\ Len(poll'.obs) = 1
              /\ IF poll'.obs = <<"completed">>
                 THEN sched'.fi = sched.fi + 1 /\ pc' \in {"final", "finished"}
                 ELSE sched'.fi = sched.fi /\ pc' = "poll"
       /\ (pc = "final" /\ ~AwaitsRun) => (poll' = poll /\ sched'.fi = sched.fi + 1)
       /\ (pc = "poll" /\ poll.phase = "final") =>
              IF poll'.result = "pending" THEN pc' = "poll" /\ error' = Null
              ELSE /\ pc' = "failed"
                   /\ error' = Thrown("Could not build target")
                   /\ Len(poll'.obs) = POLLS + 1 \/ poll'.obs[Len(poll'.obs)] \in {"failed", "completed"}
       /\ pc' = "finished" =>
              /\ error' = Null
              /\ pc = "final" /\ sched.fi = Len(sched.order)
              /\ sched'.fi = Len(sched.order) + 1
    ]_vars

\* the run ended without error after the final loop saw the run of Y:dev
\* completed; the run of X:dev had been seen completed in the tagging loop
C31_Witness ==
    /\ pc = "finished"
    /\ error = Null
    /\ poll # Null /\ poll.phase = "final" /\ poll.result = "true"
    /\ poll.target = Target(RepoY, "dev")
    /\ Target(RepoX, "dev") \in sched.workflows \cap sched.passed_workflows

(***************************************************************************)
(* Properties of the scheduler's graph and order (specification SpecOrder).*)
(***************************************************************************)
\* the repositories whose integration branch the scan could check out
WithIntegrationBranch == { r \in Range(repo_ids) : before[r].branches[dev_branch] # Null }

\* C32: the scheduler graph has a stable node for every scanned repository
\* and an integration node exactly for the repositories whose integration
\* branch could be checked out; the targets are processed in an order in
\* which every target comes after all targets it depends on, a repository's
\* stable target before its integration target.
C32_GraphAndOrder ==
    (sched # Null /\ pc \notin {"scan", "graph"}) =>
        /\ Range(sched.graph.nodes) =
               { Target(r, "master") : r \in Range(repo_ids) }
                   \cup { Target(r, "dev") : r \in WithIntegrationBranch }
        /\ pc # "failed" \/ sched.order # <<>> =>
               /\ Range(sched.order) = Range(sched.graph.nodes)
               /\ Len(sched.order) = Len(sched.graph.nodes)
               /\ \A i \in 1..Len(sched.graph.edges) :
                      IndexOf(sched.order, sched.graph.edges[i][2]) < IndexOf(sched.order, sched.graph.edges[i][1])
               /\ \A r \in WithIntegrationBranch :
                      IndexOf(sched.order, Target(r, "master")) < IndexOf(sched.order, Target(r, "dev"))
        /\ \A i \in 1..Len(events) :
               /\ InSeq(events[i].arg, sched.order)
               /\ i < Len(events) =>
                      IndexOf(sched.order, events[i].arg) <= IndexOf(sched.order, events[i + 1].arg)
               /\ (i = Len(events) /\ pc \in {"tag", "deps", "write", "lookup"}) =>
                      IndexOf(sched.order, events[i].arg) <= sched.ti

\* Y and X have integration branches, Z has none; Y:dev, which depends on
\* X:dev, was tagged after X:master and X:dev
C32_Witness ==
    /\ sched # Null /\ pc = "finished"
    /\ repo_ids = <<RepoY, RepoX, RepoZ>>
    /\ WithIntegrationBranch = {RepoX, RepoY}
    /\ InSeq(<<Target(RepoY, "dev"), Target(RepoX, "dev")>>, sched.graph.edges)
    /\ \E i, j, k \in 1..Len(events) :
           /\ i < j /\ j < k
           /\ events[i] = Event("create_tag", Target(RepoX, "master"))
           /\ events[j] = Event("create_tag", Target(RepoX, "dev"))
           /\ events[k] = Event("create_tag", Target(RepoY, "dev"))

(***************************************************************************)
(* Properties of the implicit edge (specification SpecRetag).              *)
(***************************************************************************)
\* the tagging loop is at an integration target
AtIntegrationTarget ==
    /\ sched # Null
    /\ pc \in {"deps", "poll", "write"}
    /\ sched.ti <= Len(sched.order)
    /\ sched.order[sched.ti][2] = "dev"

\* the stable target of the repository of the target in work
OwnStable == Target(TargetRepo(sched.order[sched.ti]), "master")

\* C33: the implicit integration-to-stable edge of one repository is
\* ordering-only: before tagging an integration target the scheduler never
\* waits on the pipeline of that repository's own stable target and never
\* pins that stable target's tag as a dependency override.
C33_OrderingOnly ==
    [][/\ (AtIntegrationTarget /\ pc = "deps" /\ sched.di <= Len(sched.deps)
              /\ sched.deps[sched.di] = OwnStable)
           => /\ poll' = poll
              /\ pc' = "deps"
              /\ sched'.tag_overrides = sched.tag_overrides
              /\ sched'.passed_workflows = sched.passed_workflows
       /\ AtIntegrationTarget' =>
              /\ InSeq(OwnStable', sched'.deps)
              /\ parse_repo_id(TargetRepo(OwnStable')).repo \notin DOMAIN sched'.tag_overrides
              /\ (pc' = "poll" /\ poll'.phase = "tag") => poll'.target # OwnStable'
    ]_vars

\* X:dev is about to be written while the pipeline run recorded for X:master
\* in this run has not been waited for
C33_Witness ==
    /\ AtIntegrationTarget /\ pc = "write"
    /\ sched.order[sched.ti] = Target(RepoX, "dev")
    /\ OwnStable \in sched.workflows \ sched.passed_workflows
    /\ poll = Null

(***************************************************************************)
(* Properties of needs_update (specification Spec).                        *)
(***************************************************************************)
\* the integration branch the cycle found
DevFound == before[repo_id].branches[dev_branch]

\* needs_update has returned for the changes in prs
Decided == pc \notin {"clone", "decide"} /\ decision # Null

\* a resolved change was last updated after the last commit of the
\* integration branch
UpdatedSince ==
    /\ DevFound # Null
    /\ \E i \in 1..Len(prs.prs) : prs.prs[i].updatedAt > TipDate(DevFound, 0).date

\* C34: in needs_update, when the integration branch exists and at least one
\* resolved change has a last-updated timestamp strictly newer than the
\* integration branch's last commit timestamp, the result is rebuild,
\* whatever the change-set diff and whether or not prior state was read.
C34_UpdatedChangeRebuilds ==
    (pc \notin {"clone", "decide"} /\ UpdatedSince) =>
        /\ decision # Null
        /\ decision.result
        /\ pc \in {"finally", "done", "crashed"} =>
               error # Null \/ \E i \in 1..Len(events) : events[i].op = "reset"

\* the rebuild was decided for the change set the integration branch
\* records, with no commit to the default branch since
C34_Witness ==
    /\ Decided /\ UpdatedSince
    /\ decision.result
    /\ decision.added = <<>> /\ decision.removed = <<>>
    /\ DevFound.base = before[repo_id].master
    /\ DevStatus([local |-> [b \in BranchNames |-> DevFound]], before[repo_id]) # Null
    /\ Len(prs.prs) > 0

\* the overlay branch the cycle found
OverlayFound == before[repo_id].branches[dev_custom]

\* the default branch has commits the integration branch found does not have
MasterAhead == DevFound # Null /\ before[repo_id].master > DevFound.base

\* C40: in needs_update, when the integration branch exists and the default
\* branch has at least one commit not reachable from it, the result is
\* rebuild even if the change set is unchanged and no change was updated;
\* when the integration branch does not exist but changes or an overlay
\* branch exist, the result is rebuild.
C40_MasterAheadRebuilds ==
    Decided =>
        /\ MasterAhead => decision.result
        /\ (DevFound = Null /\ (Len(prs.prs) > 0 \/ OverlayFound # Null)) => decision.result

\* with a resolved change both halves hold; needs_update never sees the
\* overlay branch: without a resolved change it answers no, and deletes the
\* integration branch if there is one
C40_AsCoded ==
    Decided =>
        /\ (Len(prs.prs) > 0 /\ (MasterAhead \/ DevFound = Null)) => decision.result
        /\ Len(prs.prs) = 0 =>
               /\ ~decision.result
               /\ decision.delete_dev <=> DevFound # Null

\* no integration branch, no resolved change, an overlay branch: the answer
\* was no
C40_Witness ==
    /\ Decided
    /\ DevFound = Null /\ OverlayFound # Null
    /\ Len(prs.prs) = 0
    /\ ~decision.result

(***************************************************************************)
(* Properties of the escalation and of the working copies.                 *)
(***************************************************************************)
\* the cycle has just escalated a failed merge; the working copy is still there
Escalated ==
    /\ pc = "finally"
    /\ wc # Null
    /\ \E i \in 1..Len(events) : events[i].op = "merge_custom_failed" \/ NonRevertableFailure(i)

\* the rebuilt integration branch holds the merges that succeeded and nothing
\* of the failed one
TipBeforeFailedMerge ==
    /\ wc.local[dev_branch] # Null
    /\ Len(wc.local[dev_branch].commits) = Len(merged)
    /\ \A i \in 1..Len(merged) :
           wc.local[dev_branch].commits[Len(merged) + 1 - i] = MergeCommit(merged[i].permalink, clock)

\* C35: on escalation in a run that is not a dry run, the commit published
\* to the remote error branch is the tip the rebuilt integration branch had
\* immediately before the failed merge: all earlier successful merges
\* included, nothing of the failed merge.
C35_ErrorBranchTip ==
    (Escalated /\ ~dryrun) =>
        /\ TipBeforeFailedMerge
        /\ remote[repo_id].branches[dev_error] = wc.local[dev_branch]

\* the working copy's integration branch is that tip, and the push of the
\* error branch fails without publishing anything
C35_AsCoded ==
    (Escalated /\ ~dryrun) =>
        /\ TipBeforeFailedMerge
        /\ remote[repo_id].branches[dev_error] = before[repo_id].branches[dev_error]
        /\ error = Thrown("error: src refspec does not match any")
        /\ \A i \in 1..Len(events) : events[i] # Event("force_push", dev_error)

\* the merge of the overlay branch failed after a change had been merged
C35_Witness ==
    /\ Escalated /\ ~dryrun
    /\ Len(merged) > 0
    /\ \E i \in 1..Len(events) : events[i].op = "merge_custom_failed"

\* the repositories whose working copy the scheduler holds
Held == { r \in Range(repo_ids) : sched.clones[r] # Null }

\* C36: in a run that is not a dry run the repository's working copy is
\* removed whenever merge_prs_into_dev or a tagging step of the scheduler for
\* that repository ends, by return, by the short cut without rebuild or by
\* an error; so at most one repository's working copy exists at any time.
C36_WorkingCopyRemoved ==
    ~dryrun =>
        /\ pc \in {"clone", "done", "crashed"} => wc = Null
        /\ sched # Null =>
               /\ wc = Null
               /\ Cardinality(Held) <= 1
               /\ pc \in {"tag", "final", "finished", "failed"} => Held = {}
               /\ (pc = "poll" /\ poll.phase = "final") => Held = {}
               /\ Held # {} => Held = {TargetRepo(sched.order[sched.ti])}

\* after merge_prs_into_dev had built an integration branch, the scheduler
\* of a run that is not a dry run tagged a target and ended with the error
\* of a failed pipeline run; no working copy is left
C36_Witness ==
    /\ ~dryrun
    /\ sched # Null /\ pc = "failed"
    /\ error = Thrown("Could not build target")
    /\ \E i \in 1..Len(events) : events[i].op = "push_tag"
    /\ Held = {} /\ wc = Null
    /\ \E r \in Range(repo_ids) : remote[r].branches[dev_branch] # Null

(***************************************************************************)
(* Properties of wait_for_action (specification SpecWaitFair).             *)
(***************************************************************************)
\* no status query of the wait saw the run ended
NeverTerminal(obs) == \A k \in 1..Len(obs) : obs[k] \notin {"completed", "failed"}

\* C37: wait_for_action always terminates after at most 7 status queries
\* (the first look and at most 6 polls), whatever statuses the pipeline
\* reports, and a run that reaches no terminal state within that bound is
\* reported as failure.
C37_WaitTerminates ==
    /\ [][
           /\ poll' # Null =>
                /\ Len(poll'.obs) <= 7
                /\ poll'.result = "pending" => (Len(poll'.obs) < 7 /\ pc' = "poll")
                /\ (Len(poll'.obs) = 7 /\ NeverTerminal(poll'.obs)) => poll'.result = "false"
           /\ pc = "poll" =>
                /\ poll.result = "pending"
                /\ Len(poll'.obs) = Len(poll.obs) + 1
                /\ poll'.target = poll.target
       ]_vars
    /\ (pc = "poll") ~> (pc # "poll" /\ poll # Null /\ poll.result # "pending")

\* a run seen neither completed nor failed in seven queries was reported
\* as failed
C37_Witness ==
    /\ poll # Null
    /\ Len(poll.obs) = 7
    /\ NeverTerminal(poll.obs)
    /\ "unknown" \in Range(poll.obs) /\ "null" \in Range(poll.obs)
    /\ poll.result = "false"

(***************************************************************************)
(* Properties of increment_tag as a function of an object (specification   *)
(* SpecIncrement).                                                         *)
(***************************************************************************)
\* increment_tag was called n times on the object
Called(n) == pc \in {"increment", "incremented"} /\ Len(sched.results) = n

\* C38: increment_tag leaves the ParsedTag passed to it unchanged (same
\* format and same values after the call), so two calls on the same parsed
\* tag with the same flag return the same text.
C38_ArgumentUnchanged ==
    /\ (\E n \in 1..CALLS : Called(n)) => sched.tag = sched.given
    /\ (Called(2) /\ sched.pre[1] = sched.pre[2]) => sched.results[1] = sched.results[2]

\* as coded: the object holds the format and the values of the text
\* returned, and a second call returns the successor of the first text
C38_AsCoded ==
    /\ (Called(1) \/ Called(2)) =>
           LET last == sched.results[Len(sched.results)]
           IN  /\ last = stringify_tag(sched.tag)
               /\ sched.given.values # <<>> =>
                      /\ sched.tag # sched.given
                      /\ sched.tag.values[Len(sched.tag.values)]
                            = sched.given.values[Len(sched.given.values)] + Len(sched.results)
               /\ sched.given.values = <<>> => sched.tag.values = <<>>
    /\ Called(2) =>
           /\ sched.results[2] = increment_tag_text(parse_tag(sched.results[1].text), sched.pre[2])
           /\ sched.given.values # <<>> => sched.results[1] # sched.results[2]

\* two calls on the object parsed from 0.0.9, both for a release, returned
\* 0.0.10 and then 0.0.11
C38_Witness ==
    /\ Called(2)
    /\ sched.given = parse_tag(Dotted(<<0, 0, 9>>))
    /\ sched.pre = <<FALSE, FALSE>>
    /\ sched.results[1].text = Dotted(<<0, 0, 10>>)
    /\ sched.results[2].text = Dotted(<<0, 0, 11>>)
    /\ sched.tag.values = <<0, 0, 11>>

(***************************************************************************)
(* Properties of the committed state's dependency list (specification      *)
(* Spec).                                                                  *)
(***************************************************************************)
\* the resolved changes that declare the dependency written as text d
Declaring(d) ==
    { i \in 1..Len(prs.prs) :
        \E k \in 1..Len(prs.prs[i].dependencies) : stringify_pr(prs.prs[i].dependencies[k]) = d }

\* the resolved changes whose merge failed
FailedToMerge == { i \in 1..Len(prs.prs) : i < mi /\ ~InSeq(prs.prs[i], merged) }

\* C39: every cross-repo dependency in the Dependencies list of a state
\* committed by merge_prs_into_dev is declared by a change of that state's
\* Included list; a change whose merge failed contributes no dependency.
C39_DependenciesOfIncluded ==
    state # Null =>
        \A d \in Range(state["Dependencies"]) :
            \E i \in Declaring(d) : InSeq(prs.prs[i].permalink, state["Included PRs"])

\* as coded: the list holds the cross-repo dependencies of every resolved
\* change, merged or not
C39_AsCoded ==
    state # Null =>
        /\ \A d \in Range(state["Dependencies"]) : Declaring(d) # {}
        /\ \A i \in FailedToMerge :
               \A k \in 1..Len(prs.prs[i].dependencies) :
                   prs.prs[i].dependencies[k].repo_id.repo # parse_repo_id(repo_id).repo
                       => InSeq(stringify_pr(prs.prs[i].dependencies[k]), state["Dependencies"])

\* a state was committed with a dependency that only a change whose merge
\* failed declares
C39_Witness ==
    /\ state # Null
    /\ \E d \in Range(state["Dependencies"]) :
           /\ Declaring(d) # {}
           /\ Declaring(d) \subseteq FailedToMerge

====
